---- MODULE Spec2Model ----
(***************************************************************************)
(* Collection-and-persistence pipeline of SORA: snapshot of the papers     *)
(* table, collection from one provider, store_papers (dedup + insert in    *)
(* one session), the semaphore-bounded PDF download stage, and the         *)
(* maintenance commands of main (--flush, --sync, --organize-only).        *)
(*                                                                         *)
(* Session calls (add, flush, delete, rollback, commit, merge) are         *)
(* modelled by the SQLAlchemy Session contract their names denote: flush   *)
(* sends the pending rows and raises on a constraint violation, rollback   *)
(* discards everything the session has not committed, commit makes the     *)
(* session's rows durable, merge is an upsert by primary key.              *)
(***************************************************************************)
EXTENDS Integers, Sequences, FiniteSets, TLC

\* ------------------------------------------------------------------ bounds
MaxBatch == 2        \* longest batch a provider returns in the pipeline model
ConcBatch == 1       \* longest batch in the model of overlapping invocations
MaxFaults == 1       \* database errors (other than title conflicts) in one behaviour
NumFetch == 6        \* records submitted to the download stage in SpecFetch
MaxDedup == 2        \* longest batch per source in SpecDedup
OpsBatch == 1        \* longest batch in the model with maintenance commands
NumQueue == 7        \* records submitted to the download stage in SpecQueue
MaxResults == 2      \* results the arXiv search returns in SpecHelpers
MaxStore == 2        \* longest batch given to store_papers in SpecHelpers
MaxCreators == 2     \* longest creators list given to _extract_authors
CrashBatch == 2      \* longest batch in the model with killed invocations

\* ------------------------------------------------------- program constants
SemaphoreWidth == 5  \* asyncio.Semaphore(5)

Titles  == {"X", "Y"}             \* titles the providers return to the pipeline
DedupTitles == {"X", "Y", "Z"}   \* titles of the batches given to deduplicate_papers
Sources == {"arxiv", "zotero"}
\* Titles that differ by case or by whitespace only, and one that differs.
CaseTitles == {"Deep Nets", "deep nets", "Deep  Nets", "Y"}
\* The title in lower case with runs of whitespace collapsed.
NormalizedTitle(t) ==
    IF t \in {"Deep Nets", "deep nets", "Deep  Nets"} THEN "deep nets" ELSE t
Runs    == {"r1", "r2"}          \* command-line invocations of the pipeline
None    == "None"
Urls    == {"http", None}

VARIABLES
    store,      \* committed rows of the papers table
    files,      \* paths that exist under Settings.PDF_DIR
    pc,         \* pc[r]: stage the invocation r executes next
    force,      \* force[r]: Settings.FORCE_UPDATE of invocation r
    source,     \* source[r]: --source of invocation r
    existing,   \* existing[r]: existing_papers returned by get_existing_papers
    papers,     \* papers[r]: batch returned by collect_papers
    stored,     \* stored[r]: stored_papers / new_papers (in-memory Paper objects)
    skipped,    \* skipped[r]: number of "Skipping duplicate paper" reports
    errors,     \* errors[r]: number of "Error storing paper"/"Error committing" reports
    task,       \* task[r][i]: position of download_and_update(stored[r][i])
    result,     \* result[r][i]: value returned by download_and_update
    requests,   \* requests[r][i]: aio_session.get requests sent for record i
    response,   \* response[r][i]: how the request of record i ended:
                \* "none" (not yet, or never sent), "200", "error"
    semaphore,  \* semaphore[r]: _value of AsyncPDFManager.semaphore
    waiters,    \* waiters[r]: tasks queued on the semaphore, oldest first
    faults,     \* number of database errors so far
    snapAt,     \* snapAt[r]: lastCall.n when invocation r took its snapshot
    lastCall,   \* record of the latest store_papers call: arguments, table
                \* before and after, return value, reports
    lastOp,     \* when the latest command was a maintenance command (--flush,
                \* --sync, --organize-only): table and files before and after
                \* its first function, what that returned, whether it reported
                \* a database error
    dedupIn,    \* the two batches whose concatenation deduplicate_papers gets
    dedupOut,   \* its return value, once it has returned
    fnArgs,     \* the helper of the collector or of the Paper class that is
                \* called on its own, and its arguments
    fnRet       \* what it returned, once it has returned

runVars == <<pc, force, source, existing, papers, stored, skipped, errors>>
fetchVars == <<task, result, requests, response, semaphore, waiters>>
dedupVars == <<dedupIn, dedupOut>>
fnVars == <<fnArgs, fnRet>>
histVars == <<faults, snapAt, lastCall, lastOp>>
vars == <<store, files, runVars, fetchVars, histVars, dedupVars, fnVars>>

\* ------------------------------------------------------------ data model
\* Paper as built by a collector (database.py Paper, before the INSERT).
Paper(t, s, u) ==
    [id |-> 0, title |-> t, source |-> s, url |-> u,
     pdf_path |-> None, processed |-> 0, organized |-> 0]

Max(S) == CHOOSE x \in S : \A y \in S : y <= x

\* SQLite rowid for an INTEGER PRIMARY KEY: one more than the largest id.
NextId(db) == IF db = {} THEN 1 ELSE Max({row.id : row \in db}) + 1

\* title = Column(String, unique=True): a second row with the title is refused.
\* (UniqueViolationNoCheck: the column without the constraint.)
UniqueViolationNoCheck(db, title) == FALSE
UniqueViolation(db, title) == \E row \in db : row.title = title

\* Settings.PDF_DIR / f"{paper.id}.pdf"
PdfPath(id) == ToString(id) \o ".pdf"

\* ------------------------------------------------ get_existing_papers
StatusOf(row) ==
    [id |-> row.id, has_pdf |-> (row.pdf_path # None), processed |-> row.processed]

GetExistingPapers(db) ==
    [t \in {row.title : row \in db} |->
        StatusOf(CHOOSE row \in db : row.title = t)]

\* ------------------------------------------------ deduplicate_papers
RECURSIVE DedupLoop(_, _, _, _)
DedupLoop(ps, i, seen_titles, unique_papers) ==
    IF i > Len(ps) THEN unique_papers
    ELSE IF ps[i].title \notin seen_titles
         THEN DedupLoop(ps, i + 1, seen_titles \cup {ps[i].title},
                        Append(unique_papers, ps[i]))
         ELSE DedupLoop(ps, i + 1, seen_titles, unique_papers)

\* (DeduplicateKeepLast: the last occurrence of a title wins.)
DeduplicateKeepLast(ps) ==
    LET rev == [i \in 1..Len(ps) |-> ps[Len(ps) + 1 - i]]
        out == DedupLoop(rev, 1, {}, <<>>)
    IN  [i \in 1..Len(out) |-> out[Len(out) + 1 - i]]
deduplicate_papers(ps) == DedupLoop(ps, 1, {}, <<>>)

\* ------------------------------------------------------- store_papers
\* "if paper.title in seen_titles: continue"
\* (SeenInBatchNever: the loop without the test.)
SeenInBatchNever(title, seen_titles) == FALSE
\* (SeenInBatchNormalized: the titles are compared in normalized form.)
SeenInBatchNormalized(title, seen_titles) ==
    \E t \in seen_titles : NormalizedTitle(t) = NormalizedTitle(title)
SeenInBatch(title, seen_titles) == title \in seen_titles

\* "if not paper_status or (not paper_status['has_pdf'] and Settings.FORCE_UPDATE)"
\* (AddPaperIgnoringPdf, AddPaperIgnoringForce: the condition without one conjunct.)
AddPaperIgnoringPdf(existing_papers, title, forceUpdate) ==
    \/ title \notin DOMAIN existing_papers
    \/ forceUpdate
AddPaperIgnoringForce(existing_papers, title, forceUpdate) ==
    \/ title \notin DOMAIN existing_papers
    \/ ~existing_papers[title].has_pdf
AddPaper(existing_papers, title, forceUpdate) ==
    \/ title \notin DOMAIN existing_papers
    \/ (~existing_papers[title].has_pdf /\ forceUpdate)

\* "session.query(Paper).filter_by(title=paper.title).delete()" when paper_status
\* (DeleteOldKeep: the old row is not deleted.)
DeleteOldKeep(db, existing_papers, title) == db
DeleteOld(db, existing_papers, title) ==
    IF title \in DOMAIN existing_papers
    THEN {row \in db : row.title # title}
    ELSE db

\* "session.rollback()" in the per-paper handler: the session goes back to
\* the committed table; nothing of this call has been committed yet.
SessionRollback(committed, db) == committed

\* One iteration of "for paper in papers"; st is the loop's state.
StorePaper(paper, existing_papers, forceUpdate, raises, committed, st) ==
    IF SeenInBatch(paper.title, st.seen_titles) THEN st
    ELSE LET seen == st.seen_titles \cup {paper.title} IN
         IF AddPaper(existing_papers, paper.title, forceUpdate)
         THEN LET db1 == DeleteOld(st.db, existing_papers, paper.title)
                  obj == [paper EXCEPT !.id = NextId(db1)]
                  del == IF paper.title \in DOMAIN existing_papers
                         THEN Append(st.deleted, paper.title) ELSE st.deleted
              IN  IF raises \/ UniqueViolation(db1, paper.title)
                  THEN [st EXCEPT !.seen_titles = seen,
                                  !.db = SessionRollback(committed, st.db),
                                  !.errors = @ + 1,
                                  !.deleted = del]
                  ELSE [st EXCEPT !.seen_titles = seen,
                                  !.db = db1 \cup {obj},
                                  !.stored_papers = Append(@, obj),
                                  !.deleted = del]
         ELSE [st EXCEPT !.seen_titles = seen, !.skipped = @ + 1]

RECURSIVE StoreLoop(_, _, _, _, _, _, _)
StoreLoop(ps, i, existing_papers, forceUpdate, fails, committed, st) ==
    IF i > Len(ps) THEN st
    ELSE StoreLoop(ps, i + 1, existing_papers, forceUpdate, fails, committed,
                   StorePaper(ps[i], existing_papers, forceUpdate,
                              i \in fails, committed, st))

\* Return value: "return []" when the final commit raises.
Returned(stored_papers, commitOk) == IF commitOk THEN stored_papers ELSE <<>>

\* The whole call: loop, then commit (or rollback when the commit raises).
StorePapers(ps, existing_papers, forceUpdate, fails, commitOk, committed) ==
    LET st == StoreLoop(ps, 1, existing_papers, forceUpdate, fails, committed,
                        [db |-> committed, seen_titles |-> {},
                         stored_papers |-> <<>>, skipped |-> 0, errors |-> 0,
                         deleted |-> <<>>])
    IN  [db      |-> IF commitOk THEN st.db ELSE committed,
         ret     |-> Returned(st.stored_papers, commitOk),
         skipped |-> st.skipped,
         errors  |-> st.errors + (IF commitOk THEN 0 ELSE 1),
         inserted |-> [i \in DOMAIN st.stored_papers |-> st.stored_papers[i].title],
         deleted |-> st.deleted]

\* ------------------------------------------------------------ providers
RECURSIVE SeqsUpTo(_, _)
SeqsUpTo(S, n) ==
    IF n = 0 THEN {<<>>}
    ELSE LET shorter == SeqsUpTo(S, n - 1)
         IN  shorter \cup {Append(q, x) : q \in {q \in shorter : Len(q) = n - 1}, x \in S}

Injective(q) == \A i, j \in 1..Len(q) : q[i].title = q[j].title => i = j

\* collect_from_arxiv: list(collected) of papers with pairwise different
\* titles (seen_titles), in the arbitrary order of a set, each with its pdf_url.
ArxivBatches(n) ==
    {q \in SeqsUpTo({Paper(t, "arxiv", "http") : t \in Titles}, n) : Injective(q)}

\* collect_from_zotero: one paper per journalArticle item in the order of the
\* collection; titles may repeat and the url may be missing.
ZoteroBatches(n) ==
    SeqsUpTo({Paper(t, "zotero", u) : t \in Titles, u \in Urls}, n)

Batches(s, n) == IF s = "arxiv" THEN ArxivBatches(n) ELSE ZoteroBatches(n)

\* ---------------------------------------------------------------- Init
NoDedupIn == [b1 |-> <<>>, b2 |-> <<>>]
NoDedupOut == [done |-> FALSE, out |-> <<>>]
NoArgs == [fn |-> "none"]
NoRet == [done |-> FALSE]
NoCall == [n |-> 0, papers |-> <<>>, existing |-> <<>>, force |-> FALSE,
           before |-> {}, after |-> {}, ret |-> <<>>, skipped |-> 0, errors |-> 0,
           repeat |-> FALSE, same |-> FALSE, total |-> 0]
NoOp == [op |-> "none", before |-> {}, after |-> {}, filesBefore |-> {},
         filesAfter |-> {}, ret |-> None, error |-> FALSE, source |-> None,
         selected |-> {}, succeeded |-> {}]

Init ==
    /\ store = {}
    /\ files = {}
    /\ pc = [r \in Runs |-> "INIT"]
    /\ force = [r \in Runs |-> FALSE]
    /\ source = [r \in Runs |-> "arxiv"]
    /\ existing = [r \in Runs |-> <<>>]
    /\ papers = [r \in Runs |-> <<>>]
    /\ stored = [r \in Runs |-> <<>>]
    /\ skipped = [r \in Runs |-> 0]
    /\ errors = [r \in Runs |-> 0]
    /\ task = [r \in Runs |-> <<>>]
    /\ result = [r \in Runs |-> <<>>]
    /\ requests = [r \in Runs |-> <<>>]
    /\ response = [r \in Runs |-> <<>>]
    /\ semaphore = [r \in Runs |-> SemaphoreWidth]
    /\ waiters = [r \in Runs |-> <<>>]
    /\ faults = 0
    /\ snapAt = [r \in Runs |-> 0]
    /\ lastCall = NoCall
    /\ lastOp = NoOp
    /\ dedupIn = NoDedupIn
    /\ dedupOut = NoDedupOut
    /\ fnArgs = NoArgs
    /\ fnRet = NoRet

\* ------------------------------------------------------------ collect_all
\* main(): Settings.FORCE_UPDATE = args.force; collect_all(source):
\* "existing_papers = await self.get_existing_papers()"
Snapshot(r, s, f) ==
    /\ pc[r] = "INIT"
    /\ snapAt' = [snapAt EXCEPT ![r] = lastCall.n]
    /\ force' = [force EXCEPT ![r] = f]
    /\ source' = [source EXCEPT ![r] = s]
    /\ existing' = [existing EXCEPT ![r] = GetExistingPapers(store)]
    /\ pc' = [pc EXCEPT ![r] = "COLLECT"]
    /\ lastOp' = NoOp
    /\ UNCHANGED <<store, files, papers, stored, skipped, errors, fetchVars,
                   faults, lastCall, dedupVars, fnVars>>

\* "papers = await self.collector.collect_papers(source=...)"
Collect(r, batch) ==
    /\ pc[r] = "COLLECT"
    /\ papers' = [papers EXCEPT ![r] = batch]
    /\ pc' = [pc EXCEPT ![r] = "PERSIST"]
    /\ UNCHANGED <<store, files, force, source, existing, stored, skipped, errors,
                   fetchVars, histVars, dedupVars, fnVars>>

\* collect_papers raises (the provider call fails): neither the adapters nor
\* collect_all nor main catch it, the exception ends the invocation.
CollectFails(r) ==
    /\ pc[r] = "COLLECT"
    /\ pc' = [pc EXCEPT ![r] = "FAILED"]
    /\ UNCHANGED <<store, files, force, source, existing, papers, stored, skipped,
                   errors, fetchVars, histVars, dedupVars, fnVars>>

\* "total_papers, new_papers = await paper_manager.collect_all(...)" and
\* "await download_with_progress(pdf_manager, new_papers)": the download stage
\* gets the second component, what store_papers returned.
\* (DownloadBatchAll: it gets every collected paper.)
DownloadBatchAll(collected, stored_papers) == collected
DownloadBatch(collected, stored_papers) == stored_papers

\* collect_all: "return len(papers), stored_papers"
\* (CollectAllReturnsStoredCount: "return len(stored_papers), stored_papers".)
CollectAllReturnsStoredCount(collected, stored_papers) ==
    [total |-> Len(stored_papers), stored |-> stored_papers]
collect_all_return(collected, stored_papers) ==
    [total |-> Len(collected), stored |-> stored_papers]

\* "stored_papers = await self.store_papers(papers, existing_papers)", then
\* download_with_progress creates one download_and_update task per new paper
\* ("if not papers: return").
Persist(r, fails, commitOk) ==
    /\ pc[r] = "PERSIST"
    /\ LET res == StorePapers(papers[r], existing[r], force[r], fails, commitOk, store)
           out == collect_all_return(papers[r], res.ret)
           new_papers == DownloadBatch(papers[r], out.stored)
           n   == Len(new_papers)
           k   == Cardinality(fails) + (IF commitOk THEN 0 ELSE 1)
       IN  /\ faults + k <= MaxFaults
           /\ faults' = faults + k
           /\ lastCall' =
                 [n |-> lastCall.n + 1, papers |-> papers[r], existing |-> existing[r],
                  force |-> force[r], before |-> store, after |-> res.db,
                  ret |-> res.ret, skipped |-> res.skipped, errors |-> res.errors,
                  repeat |-> /\ lastCall.n > 0
                             /\ snapAt[r] = lastCall.n
                             /\ papers[r] = lastCall.papers
                             /\ ~force[r] /\ ~lastCall.force,
                  same |-> /\ lastCall.n > 0
                           /\ snapAt[r] = lastCall.n
                           /\ papers[r] = lastCall.papers,
                  total |-> out.total]
           /\ store' = res.db
           /\ stored' = [stored EXCEPT ![r] = new_papers]
           /\ skipped' = [skipped EXCEPT ![r] = res.skipped]
           /\ errors' = [errors EXCEPT ![r] = res.errors]
           /\ task' = [task EXCEPT ![r] = [i \in 1..n |-> "new"]]
           /\ result' = [result EXCEPT ![r] = [i \in 1..n |-> "pending"]]
           /\ requests' = [requests EXCEPT ![r] = [i \in 1..n |-> 0]]
           /\ response' = [response EXCEPT ![r] = [i \in 1..n |-> "none"]]
           /\ pc' = [pc EXCEPT ![r] = IF n = 0 THEN "DONE" ELSE "FETCH_ARTIFACTS"]
    /\ UNCHANGED <<files, force, source, existing, papers, semaphore, waiters,
                   snapAt, lastOp, dedupVars, fnVars>>

\* ------------------------------------------------------- download stage
\* Session.merge(paper) + commit: upsert by primary key; ok is FALSE when
\* the unique title raises IntegrityError, and the table is then unchanged.
\* (MergeAdds: the object is added as a new row, as Session.add would.)
\* (MergeInsertOrIgnore: a row that has the object's id is left as it is.)
MergeAdds(db, obj) == [ok |-> TRUE, db |-> db \cup {obj}]
MergeInsertOrIgnore(db, obj) ==
    [ok |-> TRUE, db |-> IF \E row \in db : row.id = obj.id THEN db ELSE db \cup {obj}]
Merge(db, obj) ==
    LET others == {row \in db : row.id # obj.id}
    IN  IF UniqueViolation(others, obj.title)
        THEN [ok |-> FALSE, db |-> db]
        ELSE [ok |-> TRUE, db |-> others \cup {obj}]

\* asyncio.Semaphore.locked()  (LockedNever: a gate that admits everyone.)
LockedNever(r) == FALSE
Locked(r) == semaphore[r] = 0 \/ waiters[r] # <<>>

\* Tasks that are inside "async with self.semaphore".
Holding(r) == {i \in DOMAIN task[r] : task[r][i] \in {"admitted", "inflight"}}
InFlight(r) == {i \in DOMAIN task[r] : task[r][i] = "inflight"}

\* Semaphore.release() at the exit of "async with self.semaphore" by task i,
\* whose next position is nxt: the slot goes to the oldest waiter, if any.
\* (ReleaseNewest: the slot goes to the task that queued last.)
ReleaseNewest(r, i, nxt) ==
    IF waiters[r] # <<>>
    THEN /\ waiters' = [waiters EXCEPT ![r] = SubSeq(@, 1, Len(@) - 1)]
         /\ task' = [task EXCEPT ![r][i] = nxt,
                                 ![r][waiters[r][Len(waiters[r])]] = "admitted"]
         /\ semaphore' = semaphore
    ELSE /\ waiters' = waiters
         /\ task' = [task EXCEPT ![r][i] = nxt]
         /\ semaphore' = [semaphore EXCEPT ![r] = @ + 1]
\* (ReleaseLeaks: the task leaves without giving its slot back.)
ReleaseLeaks(r, i, nxt) ==
    /\ task' = [task EXCEPT ![r][i] = nxt]
    /\ UNCHANGED <<semaphore, waiters>>
Release(r, i, nxt) ==
    IF waiters[r] # <<>>
    THEN /\ waiters' = [waiters EXCEPT ![r] = Tail(@)]
         /\ task' = [task EXCEPT ![r][i] = nxt, ![r][Head(waiters[r])] = "admitted"]
         /\ semaphore' = semaphore
    ELSE /\ waiters' = waiters
         /\ task' = [task EXCEPT ![r][i] = nxt]
         /\ semaphore' = [semaphore EXCEPT ![r] = @ + 1]

\* "aio_session.get(paper.url)": with None for a url the call raises while it
\* builds the request, before anything is sent.
\* (GetNeverRaises: the request goes out whatever the url.)
GetNeverRaises(url) == FALSE
GetRaises(url) == url = None

\* Body of "async with self.semaphore" up to its first suspension, entered by
\* task i that owns a slot: when get raises, "except Exception: return False";
\* otherwise the request goes out.
EnterBody(r, i) ==
    IF GetRaises(stored[r][i].url)
    THEN /\ result' = [result EXCEPT ![r][i] = "False"]
         /\ requests' = requests
         /\ Release(r, i, "done")
    ELSE /\ requests' = [requests EXCEPT ![r][i] = @ + 1]
         /\ result' = result
         /\ task' = [task EXCEPT ![r][i] = "inflight"]
         /\ UNCHANGED <<semaphore, waiters>>

\* asyncio.gather starts the tasks in list order; each runs to
\* "async with self.semaphore": it takes a slot or queues.
StartTask(r, i) ==
    /\ pc[r] = "FETCH_ARTIFACTS"
    /\ i \in DOMAIN task[r]
    /\ task[r][i] = "new"
    /\ \A j \in 1..(i - 1) : task[r][j] # "new"
    /\ IF Locked(r)
       THEN /\ waiters' = [waiters EXCEPT ![r] = Append(@, i)]
            /\ task' = [task EXCEPT ![r][i] = "waiting"]
            /\ UNCHANGED <<semaphore, result, requests>>
       ELSE IF GetRaises(stored[r][i].url)
            THEN /\ result' = [result EXCEPT ![r][i] = "False"]
                 /\ task' = [task EXCEPT ![r][i] = "done"]
                 /\ UNCHANGED <<semaphore, waiters, requests>>
            ELSE /\ semaphore' = [semaphore EXCEPT ![r] = @ - 1]
                 /\ requests' = [requests EXCEPT ![r][i] = @ + 1]
                 /\ task' = [task EXCEPT ![r][i] = "inflight"]
                 /\ UNCHANGED <<waiters, result>>
    /\ UNCHANGED <<store, files, runVars, response, histVars, dedupVars, fnVars>>

\* The event loop runs the first step of every task gather created before it
\* polls the network, so nothing completes while a task is still "new".
AllStarted(r) == \A j \in DOMAIN task[r] : task[r][j] # "new"

\* A queued task that was handed a slot resumes.
ResumeTask(r, i) ==
    /\ pc[r] = "FETCH_ARTIFACTS"
    /\ AllStarted(r)
    /\ i \in DOMAIN task[r]
    /\ task[r][i] = "admitted"
    /\ EnterBody(r, i)
    /\ UNCHANGED <<store, files, runVars, response, histVars, dedupVars, fnVars>>

\* The request of task i completes with a non-200 status or a transport
\* error: download_pdf returns False, download_and_update returns it.
\* (RespondFailureRetry: the request is sent again, up to three times.
\*  RespondFailureWrites: the body is written whatever the status.)
RespondFailureRetry(r, i) ==
    /\ pc[r] = "FETCH_ARTIFACTS"
    /\ i \in DOMAIN task[r]
    /\ task[r][i] = "inflight"
    /\ AllStarted(r)
    /\ requests[r][i] < 3
    /\ response' = [response EXCEPT ![r][i] = "error"]
    /\ requests' = [requests EXCEPT ![r][i] = @ + 1]
    /\ UNCHANGED <<store, files, runVars, task, result, semaphore, waiters,
                   histVars, dedupVars, fnVars>>
RespondFailureWrites(r, i) ==
    /\ pc[r] = "FETCH_ARTIFACTS"
    /\ i \in DOMAIN task[r]
    /\ task[r][i] = "inflight"
    /\ AllStarted(r)
    /\ response' = [response EXCEPT ![r][i] = "error"]
    /\ result' = [result EXCEPT ![r][i] = "False"]
    /\ files' = files \cup {PdfPath(stored[r][i].id)}
    /\ Release(r, i, "done")
    /\ UNCHANGED <<store, runVars, requests, histVars, dedupVars, fnVars>>
RespondFailure(r, i) ==
    /\ pc[r] = "FETCH_ARTIFACTS"
    /\ i \in DOMAIN task[r]
    /\ task[r][i] = "inflight"
    /\ AllStarted(r)
    /\ response' = [response EXCEPT ![r][i] = "error"]
    /\ result' = [result EXCEPT ![r][i] = "False"]
    /\ Release(r, i, "done")
    /\ UNCHANGED <<store, files, runVars, requests, histVars, dedupVars, fnVars>>

\* The request completes with status 200: the body is written, pdf_path and
\* processed are set on the object and merged; download_pdf returns True, or
\* False when the database update raises (dbOk = FALSE or a title conflict).
Respond200(r, i, dbOk) ==
    /\ pc[r] = "FETCH_ARTIFACTS"
    /\ i \in DOMAIN task[r]
    /\ task[r][i] = "inflight"
    /\ AllStarted(r)
    /\ LET paper  == stored[r][i]
           obj    == [paper EXCEPT !.pdf_path = PdfPath(paper.id), !.processed = 1]
           merged == Merge(store, obj)
           ok     == dbOk /\ merged.ok
       IN  /\ dbOk \/ faults < MaxFaults
           /\ faults' = IF dbOk THEN faults ELSE faults + 1
           /\ response' = [response EXCEPT ![r][i] = "200"]
           /\ files' = files \cup {PdfPath(paper.id)}
           /\ stored' = [stored EXCEPT ![r][i] = obj]
           /\ store' = IF ok THEN merged.db ELSE store
           /\ result' = [result EXCEPT ![r][i] = IF ok THEN "pending" ELSE "False"]
           /\ Release(r, i, IF ok THEN "reconcile" ELSE "done")
    /\ UNCHANGED <<pc, force, source, existing, papers, skipped, errors,
                   requests, snapAt, lastCall, lastOp, dedupVars, fnVars>>

\* download_and_update after a truthy result: "paper.pdf_path = result;
\* paper.processed = 1; merge; commit"; an exception makes it return None.
\* (ReconcileNoCatch: without the try/except, the exception leaves gather
\*  and ends download_with_progress.)
ReconcileNoCatch(r, i, dbOk) ==
    /\ pc[r] = "FETCH_ARTIFACTS"
    /\ i \in DOMAIN task[r]
    /\ task[r][i] = "reconcile"
    /\ LET paper  == stored[r][i]
           obj    == [paper EXCEPT !.pdf_path = "True", !.processed = 1]
           merged == Merge(store, obj)
           ok     == dbOk /\ merged.ok
       IN  /\ dbOk \/ faults < MaxFaults
           /\ faults' = IF dbOk THEN faults ELSE faults + 1
           /\ stored' = [stored EXCEPT ![r][i] = obj]
           /\ store' = IF ok THEN merged.db ELSE store
           /\ result' = [result EXCEPT ![r][i] = IF ok THEN "True" ELSE "pending"]
           /\ task' = [task EXCEPT ![r][i] = "done"]
           /\ pc' = [pc EXCEPT ![r] = IF ok THEN @ ELSE "FAILED"]
    /\ UNCHANGED <<files, force, source, existing, papers, skipped, errors,
                   requests, response, semaphore, waiters, snapAt, lastCall, lastOp,
                   dedupVars, fnVars>>
Reconcile(r, i, dbOk) ==
    /\ pc[r] = "FETCH_ARTIFACTS"
    /\ i \in DOMAIN task[r]
    /\ task[r][i] = "reconcile"
    /\ LET paper  == stored[r][i]
           obj    == [paper EXCEPT !.pdf_path = "True", !.processed = 1]
           merged == Merge(store, obj)
           ok     == dbOk /\ merged.ok
       IN  /\ dbOk \/ faults < MaxFaults
           /\ faults' = IF dbOk THEN faults ELSE faults + 1
           /\ stored' = [stored EXCEPT ![r][i] = obj]
           /\ store' = IF ok THEN merged.db ELSE store
           /\ result' = [result EXCEPT ![r][i] = IF ok THEN "True" ELSE None]
           /\ task' = [task EXCEPT ![r][i] = "done"]
    /\ UNCHANGED <<files, pc, force, source, existing, papers, skipped, errors,
                   requests, response, semaphore, waiters, snapAt, lastCall, lastOp,
                   dedupVars, fnVars>>

\* "results = await asyncio.gather(*tasks)" returns once every task has.
Gather(r) ==
    /\ pc[r] = "FETCH_ARTIFACTS"
    /\ \A i \in DOMAIN task[r] : task[r][i] = "done"
    /\ pc' = [pc EXCEPT ![r] = "DONE"]
    /\ UNCHANGED <<store, files, force, source, existing, papers, stored, skipped,
                   errors, fetchVars, histVars, dedupVars, fnVars>>

\* The process ends and its objects are gone.
\* (ExitRestart: the pipeline starts over instead.)
ExitRestart(r) ==
    /\ pc[r] \in {"DONE", "FAILED"}
    /\ pc' = [pc EXCEPT ![r] = "INIT"]
    /\ UNCHANGED <<store, files, force, source, existing, papers, stored, skipped,
                   errors, fetchVars, histVars, dedupVars, fnVars>>
Exit(r) ==
    /\ pc[r] \in {"DONE", "FAILED"}
    /\ pc' = [pc EXCEPT ![r] = "EXITED"]
    /\ force' = [force EXCEPT ![r] = FALSE]
    /\ source' = [source EXCEPT ![r] = "arxiv"]
    /\ existing' = [existing EXCEPT ![r] = <<>>]
    /\ papers' = [papers EXCEPT ![r] = <<>>]
    /\ stored' = [stored EXCEPT ![r] = <<>>]
    /\ skipped' = [skipped EXCEPT ![r] = 0]
    /\ errors' = [errors EXCEPT ![r] = 0]
    /\ task' = [task EXCEPT ![r] = <<>>]
    /\ result' = [result EXCEPT ![r] = <<>>]
    /\ requests' = [requests EXCEPT ![r] = <<>>]
    /\ response' = [response EXCEPT ![r] = <<>>]
    /\ semaphore' = [semaphore EXCEPT ![r] = SemaphoreWidth]
    /\ waiters' = [waiters EXCEPT ![r] = <<>>]
    /\ UNCHANGED <<store, files, histVars, dedupVars, fnVars>>

\* The process is killed during the download stage, after store_papers
\* returned and before gather does: its objects and tasks are gone, the
\* table and the files stay as they are.
Crash(r) ==
    /\ pc[r] = "FETCH_ARTIFACTS"
    /\ pc' = [pc EXCEPT ![r] = "CRASHED"]
    /\ force' = [force EXCEPT ![r] = FALSE]
    /\ source' = [source EXCEPT ![r] = "arxiv"]
    /\ existing' = [existing EXCEPT ![r] = <<>>]
    /\ papers' = [papers EXCEPT ![r] = <<>>]
    /\ stored' = [stored EXCEPT ![r] = <<>>]
    /\ skipped' = [skipped EXCEPT ![r] = 0]
    /\ errors' = [errors EXCEPT ![r] = 0]
    /\ task' = [task EXCEPT ![r] = <<>>]
    /\ result' = [result EXCEPT ![r] = <<>>]
    /\ requests' = [requests EXCEPT ![r] = <<>>]
    /\ response' = [response EXCEPT ![r] = <<>>]
    /\ semaphore' = [semaphore EXCEPT ![r] = SemaphoreWidth]
    /\ waiters' = [waiters EXCEPT ![r] = <<>>]
    /\ UNCHANGED <<store, files, histVars, dedupVars, fnVars>>

\* ------------------------------------------------- maintenance commands
\* Path(paper.pdf_path).exists()
Exists(fs, path) == path \in fs

\* flush_pdfs: rmtree(PDF_DIR) and mkdir, then "delete(Paper)" and commit;
\* when that raises, rollback and a report.  The function has no return
\* statement.  (FlushResetStatus: the rows are kept and only their pdf_path
\* and processed are reset, as the docstring has it.)
FlushResetStatus(db, fs, dbOk) ==
    [db    |-> IF dbOk THEN {[row EXCEPT !.pdf_path = None, !.processed = 0] : row \in db}
               ELSE db,
     files |-> {},
     ret   |-> None]
flush_pdfs(db, fs, dbOk) ==
    [db    |-> IF dbOk THEN {} ELSE db,
     files |-> {},
     ret   |-> None]

\* sync_db: "if paper.pdf_path: if not Path(paper.pdf_path).exists()" for the
\* rows with processed == 1.
MissingPdf(row, fs) ==
    /\ row.processed = 1
    /\ row.pdf_path # None
    /\ ~Exists(fs, row.pdf_path)

\* sync_db: the rows whose file is missing get processed = 0, pdf_path = None;
\* when an update or the commit raises, rollback and a report.
\* (SyncClearPathOnly: without "paper.processed = 0".)
SyncClearPathOnly(db, fs, dbOk) ==
    IF dbOk
    THEN {IF MissingPdf(row, fs) THEN [row EXCEPT !.pdf_path = None] ELSE row : row \in db}
    ELSE db
sync_db(db, fs, dbOk) ==
    IF dbOk
    THEN {IF MissingPdf(row, fs) THEN [row EXCEPT !.processed = 0, !.pdf_path = None]
          ELSE row : row \in db}
    ELSE db

\* organize_papers: "select(Paper).where(processed == 1, organized == 0)" and
\* "where(Paper.source == source)".
OrganizeQuery(db, s) ==
    {row \in db : row.processed = 1 /\ row.organized = 0 /\ row.source = s}

\* organize_paper returns {'status': 'success', ...} or {'status': 'failed', ...}.
OrganizeStatus(succeeded) == IF succeeded THEN "success" ELSE "failed"

\* "if result['status'] == 'organized'"
MarksOrganized(status) == status = "organized"

\* organize_papers: rows of the query for which the condition holds get
\* organized = 1; succeeded are the rows organize_paper succeeded on.
organize_papers(db, s, succeeded, dbOk) ==
    IF dbOk
    THEN {IF row \in OrganizeQuery(db, s) /\ MarksOrganized(OrganizeStatus(row \in succeeded))
          THEN [row EXCEPT !.organized = 1]
          ELSE row : row \in db}
    ELSE db

\* One invocation at a time, r1 before r2.
Idle(r) == pc[r] \in {"INIT", "EXITED", "CRASHED"}
Sequential(r) ==
    /\ r = "r1" \/ pc["r1"] \in {"EXITED", "CRASHED"}
    /\ \A q \in Runs \ {r} : Idle(q)

\* Maintenance commands run while no pipeline invocation does.
NoneRunning == \A r \in Runs : Idle(r)
FaultCost(oks) == Cardinality({i \in DOMAIN oks : ~oks[i]})

\* main --flush: flush_pdfs(), then sync_db().
Flush(dbOk, syncOk) ==
    /\ NoneRunning
    /\ faults + FaultCost(<<dbOk, syncOk>>) <= MaxFaults
    /\ faults' = faults + FaultCost(<<dbOk, syncOk>>)
    /\ LET flushed == flush_pdfs(store, files, dbOk)
       IN  /\ store' = sync_db(flushed.db, flushed.files, syncOk)
           /\ files' = flushed.files
           /\ lastOp' = [op |-> "flush", before |-> store, after |-> flushed.db,
                         filesBefore |-> files, filesAfter |-> flushed.files,
                         ret |-> flushed.ret, error |-> ~dbOk, source |-> None,
                         selected |-> {}, succeeded |-> {}]
    /\ UNCHANGED <<runVars, fetchVars, snapAt, lastCall, dedupVars, fnVars>>

\* main --sync: sync_db().
Sync(dbOk) ==
    /\ NoneRunning
    /\ faults + FaultCost(<<dbOk>>) <= MaxFaults
    /\ faults' = faults + FaultCost(<<dbOk>>)
    /\ store' = sync_db(store, files, dbOk)
    /\ lastOp' = [op |-> "sync", before |-> store, after |-> store',
                  filesBefore |-> files, filesAfter |-> files, ret |-> None,
                  error |-> ~dbOk, source |-> None, selected |-> {},
                  succeeded |-> {}]
    /\ UNCHANGED <<files, runVars, fetchVars, snapAt, lastCall, dedupVars, fnVars>>

\* main --organize-only: organize_papers(source=args.source).
OrganizeOnly(s, succeeded, dbOk) ==
    /\ NoneRunning
    /\ succeeded \subseteq OrganizeQuery(store, s)
    /\ faults + FaultCost(<<dbOk>>) <= MaxFaults
    /\ faults' = faults + FaultCost(<<dbOk>>)
    /\ store' = organize_papers(store, s, succeeded, dbOk)
    /\ lastOp' = [op |-> "organize", before |-> store, after |-> store',
                  filesBefore |-> files, filesAfter |-> files, ret |-> None,
                  error |-> ~dbOk, source |-> s,
                  selected |-> OrganizeQuery(store, s), succeeded |-> succeeded]
    /\ UNCHANGED <<files, runVars, fetchVars, snapAt, lastCall, dedupVars, fnVars>>

\* Two invocations that may overlap (r1 is the one that starts first).
Overlapping(r) == r = "r1" \/ pc["r1"] # "INIT"

\* The download stage of invocation r; DbOk are the outcomes the database
\* updates may have.  A batch of the pipeline specifications is shorter than
\* the semaphore is wide, so no task queues there and none has to resume.
Fetch(r, DbOk) ==
    \/ \E i \in DOMAIN task[r] : StartTask(r, i)
    \/ \E i \in DOMAIN task[r] : RespondFailure(r, i)
    \/ \E i \in DOMAIN task[r], dbOk \in DbOk : Respond200(r, i, dbOk)
    \/ \E i \in DOMAIN task[r], dbOk \in DbOk : Reconcile(r, i, dbOk)
    \/ Gather(r)

\* Invocations one after the other on a database that raises no error.
Next ==
    \/ \E r \in Runs, s \in Sources, f \in BOOLEAN : Sequential(r) /\ Snapshot(r, s, f)
    \/ \E r \in Runs : \E batch \in Batches(source[r], MaxBatch) : Collect(r, batch)
    \/ \E r \in Runs : Persist(r, {}, TRUE)
    \/ \E r \in Runs : Fetch(r, {TRUE})
    \/ \E r \in Runs : Exit(r)

Spec == Init /\ [][Next]_vars

\* The same, with up to MaxFaults database errors: an insert or delete of
\* store_papers, its commit, or a merge/commit of the download stage raises.
NextFaults ==
    \/ \E r \in Runs, s \in Sources, f \in BOOLEAN : Sequential(r) /\ Snapshot(r, s, f)
    \/ \E r \in Runs : \E batch \in Batches(source[r], MaxBatch) : Collect(r, batch)
    \/ \E r \in Runs : CollectFails(r)
    \/ \E r \in Runs : \E fails \in SUBSET (1..Len(papers[r])), commitOk \in BOOLEAN :
          Persist(r, fails, commitOk)
    \/ \E r \in Runs : Fetch(r, BOOLEAN)
    \/ \E r \in Runs : Exit(r)

SpecFaults == Init /\ [][NextFaults]_vars

\* Pipeline invocations and maintenance commands in any order, one at a
\* time, with up to MaxFaults database errors.
NextOps ==
    \/ \E r \in Runs, s \in Sources, f \in BOOLEAN : Sequential(r) /\ Snapshot(r, s, f)
    \/ \E r \in Runs : \E batch \in Batches(source[r], OpsBatch) : Collect(r, batch)
    \/ \E r \in Runs : CollectFails(r)
    \/ \E r \in Runs : \E fails \in SUBSET (1..Len(papers[r])), commitOk \in BOOLEAN :
          Persist(r, fails, commitOk)
    \/ \E r \in Runs : Fetch(r, BOOLEAN)
    \/ \E r \in Runs : Exit(r)
    \/ \E dbOk, syncOk \in BOOLEAN : Flush(dbOk, syncOk)
    \/ \E dbOk \in BOOLEAN : Sync(dbOk)
    \/ \E s \in Sources, dbOk \in BOOLEAN :
          \E succeeded \in SUBSET OrganizeQuery(store, s) : OrganizeOnly(s, succeeded, dbOk)

SpecOps == Init /\ [][NextOps]_vars

\* Invocations one after the other on a database that raises no error; an
\* invocation may be killed during its download stage.
NextCrash ==
    \/ \E r \in Runs, s \in Sources, f \in BOOLEAN : Sequential(r) /\ Snapshot(r, s, f)
    \/ \E r \in Runs : \E batch \in Batches(source[r], CrashBatch) : Collect(r, batch)
    \/ \E r \in Runs : Persist(r, {}, TRUE)
    \/ \E r \in Runs : Fetch(r, {TRUE})
    \/ \E r \in Runs : Exit(r)
    \/ \E r \in Runs : Crash(r)

SpecCrash == Init /\ [][NextCrash]_vars

\* Overlapping invocations: the only database error is the title conflict
\* that an out-of-date snapshot leads to.
NextConc ==
    \/ \E r \in Runs, s \in Sources, f \in BOOLEAN : Overlapping(r) /\ Snapshot(r, s, f)
    \/ \E r \in Runs : \E batch \in Batches(source[r], ConcBatch) : Collect(r, batch)
    \/ \E r \in Runs : Persist(r, {}, TRUE)
    \/ \E r \in Runs : Fetch(r, {TRUE})
    \/ \E r \in Runs : Exit(r)

SpecConc == Init /\ [][NextConc]_vars

\* ----------------------------------------------- download stage at width
\* The state in which download_with_progress starts after an invocation on an
\* empty table stored NumFetch zotero papers (ids 1..NumFetch); the first or
\* the last of them may have no url.
FetchBatch(noUrl) ==
    [i \in 1..NumFetch |->
        Paper("P" \o ToString(i), "zotero", IF i \in noUrl THEN None ELSE "http")]

\* download_with_progress starts on the batch that store_papers stored on
\* an empty table without a database error.
StageStart(batch) ==
    LET res == StorePapers(batch, GetExistingPapers({}), FALSE, {}, TRUE, {})
        n   == Len(res.ret)
    IN  /\ store = res.db
        /\ files = {}
        /\ pc = [r \in Runs |-> IF r = "r1" THEN "FETCH_ARTIFACTS" ELSE "INIT"]
        /\ force = [r \in Runs |-> FALSE]
        /\ source = [r \in Runs |-> IF r = "r1" THEN "zotero" ELSE "arxiv"]
        /\ existing = [r \in Runs |-> <<>>]
        /\ papers = [r \in Runs |-> IF r = "r1" THEN batch ELSE <<>>]
        /\ stored = [r \in Runs |-> IF r = "r1" THEN res.ret ELSE <<>>]
        /\ skipped = [r \in Runs |-> 0]
        /\ errors = [r \in Runs |-> 0]
        /\ task = [r \in Runs |-> IF r = "r1" THEN [i \in 1..n |-> "new"] ELSE <<>>]
        /\ result = [r \in Runs |-> IF r = "r1" THEN [i \in 1..n |-> "pending"] ELSE <<>>]
        /\ requests = [r \in Runs |-> IF r = "r1" THEN [i \in 1..n |-> 0] ELSE <<>>]
        /\ response = [r \in Runs |-> IF r = "r1" THEN [i \in 1..n |-> "none"] ELSE <<>>]
        /\ semaphore = [r \in Runs |-> SemaphoreWidth]
        /\ waiters = [r \in Runs |-> <<>>]
        /\ faults = 0
        /\ snapAt = [r \in Runs |-> 0]
        /\ lastCall = [NoCall EXCEPT !.n = 1, !.papers = batch, !.after = res.db,
                                     !.ret = res.ret, !.total = Len(batch)]
        /\ lastOp = NoOp
        /\ dedupIn = <<>>
        /\ dedupOut = <<>>
        /\ fnArgs = NoArgs
        /\ fnRet = NoRet

InitFetch == \E noUrl \in {{}, {1}, {NumFetch}} : StageStart(FetchBatch(noUrl))

NextFetch ==
    \/ Fetch("r1", BOOLEAN)
    \/ \E i \in DOMAIN task["r1"] : ResumeTask("r1", i)

SpecFetch == InitFetch /\ [][NextFetch]_vars

\* The stage on NumFetch records that all have a url, under the assumption
\* that every request that was sent completes and that the event loop runs
\* every task that is ready: a step of the stage that stays possible is taken.
InitGate == StageStart(FetchBatch({}))

SpecGate == InitGate /\ [][NextFetch]_vars /\ WF_vars(NextFetch)

\* ------------------------------------------- download stage, long queue
\* The download stage on NumQueue records that all have a url, on a database
\* that raises no error: more than one task queues on the semaphore.
QueueBatch == [i \in 1..NumQueue |-> Paper("P" \o ToString(i), "zotero", "http")]

InitQueue == StageStart(QueueBatch)

NextQueue ==
    \/ Fetch("r1", {TRUE})
    \/ \E i \in DOMAIN task["r1"] : ResumeTask("r1", i)

SpecQueue == InitQueue /\ [][NextQueue]_vars

\* --------------------------------------------------- deduplicate_papers
\* Batches of two sources, any titles, repeated or not.
DedupBatches(s) ==
    SeqsUpTo({Paper(t, s, u) : t \in DedupTitles, u \in Urls}, MaxDedup)

InitDedup ==
    /\ store = {}
    /\ files = {}
    /\ pc = [r \in Runs |-> "INIT"]
    /\ force = [r \in Runs |-> FALSE]
    /\ source = [r \in Runs |-> "arxiv"]
    /\ existing = [r \in Runs |-> <<>>]
    /\ papers = [r \in Runs |-> <<>>]
    /\ stored = [r \in Runs |-> <<>>]
    /\ skipped = [r \in Runs |-> 0]
    /\ errors = [r \in Runs |-> 0]
    /\ task = [r \in Runs |-> <<>>]
    /\ result = [r \in Runs |-> <<>>]
    /\ requests = [r \in Runs |-> <<>>]
    /\ response = [r \in Runs |-> <<>>]
    /\ semaphore = [r \in Runs |-> SemaphoreWidth]
    /\ waiters = [r \in Runs |-> <<>>]
    /\ faults = 0
    /\ snapAt = [r \in Runs |-> 0]
    /\ lastCall = NoCall
    /\ lastOp = NoOp
    /\ \E b1 \in DedupBatches("arxiv"), b2 \in DedupBatches("zotero") :
          dedupIn = [b1 |-> b1, b2 |-> b2]
    /\ dedupOut = NoDedupOut
    /\ fnArgs = NoArgs
    /\ fnRet = NoRet

Deduplicate ==
    /\ ~dedupOut.done
    /\ dedupOut' = [done |-> TRUE, out |-> deduplicate_papers(dedupIn.b1 \o dedupIn.b2)]
    /\ UNCHANGED <<store, files, runVars, fetchVars, histVars, dedupIn, fnVars>>

NextDedup == Deduplicate

SpecDedup == InitDedup /\ [][NextDedup]_vars

\* ------------------------------------------------- helpers on their own
\* The pipeline is not running: the variables of the invocations are at rest.
AtRest ==
    /\ store = {}
    /\ files = {}
    /\ pc = [r \in Runs |-> "INIT"]
    /\ force = [r \in Runs |-> FALSE]
    /\ source = [r \in Runs |-> "arxiv"]
    /\ existing = [r \in Runs |-> <<>>]
    /\ papers = [r \in Runs |-> <<>>]
    /\ stored = [r \in Runs |-> <<>>]
    /\ skipped = [r \in Runs |-> 0]
    /\ errors = [r \in Runs |-> 0]
    /\ task = [r \in Runs |-> <<>>]
    /\ result = [r \in Runs |-> <<>>]
    /\ requests = [r \in Runs |-> <<>>]
    /\ response = [r \in Runs |-> <<>>]
    /\ semaphore = [r \in Runs |-> SemaphoreWidth]
    /\ waiters = [r \in Runs |-> <<>>]
    /\ faults = 0
    /\ snapAt = [r \in Runs |-> 0]
    /\ lastCall = NoCall
    /\ lastOp = NoOp
    /\ dedupIn = NoDedupIn
    /\ dedupOut = NoDedupOut

\* The helper named fn returns ret.
Return(fn, ret) ==
    /\ fnArgs.fn = fn
    /\ ~fnRet.done
    /\ fnRet' = ret
    /\ UNCHANGED <<store, files, runVars, fetchVars, histVars, dedupVars, fnArgs>>

\* ---- add_to_zotero, collect_from_arxiv
\* What zot.create_items does with the item: it returns a response that
\* lists the item under 'successful' ("ok") or under 'failed' ("failed"), or
\* it raises ("raises").
PublishOutcomes == {"ok", "failed", "raises"}

\* add_to_zotero: only an exception of create_items reaches the handler; the
\* response is not looked at.
add_to_zotero(outcome) ==
    IF outcome = "raises" THEN "Error adding to Zotero" ELSE "Added paper to Zotero"

\* The loop of collect_from_arxiv over the results, for one category:
\* results[i] is the title of the i-th result, outcomes[i] what create_items
\* does if it is called for it. reports[i] is what add_to_zotero printed for
\* the i-th result, None when it was not called.
RECURSIVE ArxivLoop(_, _, _, _)
ArxivLoop(results, outcomes, i, acc) ==
    IF i > Len(results) THEN acc
    ELSE IF results[i] \in acc.seen_titles
         THEN ArxivLoop(results, outcomes, i + 1,
                        [acc EXCEPT !.reports = Append(@, None)])
         ELSE ArxivLoop(results, outcomes, i + 1,
                        [acc EXCEPT !.seen_titles = @ \cup {results[i]},
                                    !.collected = Append(@, Paper(results[i], "arxiv", "http")),
                                    !.reports = Append(@, add_to_zotero(outcomes[i]))])

collect_from_arxiv(results, outcomes) ==
    LET acc == ArxivLoop(results, outcomes, 1,
                         [seen_titles |-> {}, collected |-> <<>>, reports |-> <<>>])
    IN  [done |-> TRUE, collected |-> acc.collected, reports |-> acc.reports,
         raised |-> FALSE]

ArxivCalls ==
    {[fn |-> "collect_from_arxiv", results |-> rs, outcomes |-> os] :
        rs \in SeqsUpTo(Titles, MaxResults), os \in SeqsUpTo(PublishOutcomes, MaxResults)}

CollectFromArxiv ==
    /\ fnArgs.fn = "collect_from_arxiv"
    /\ Return("collect_from_arxiv", collect_from_arxiv(fnArgs.results, fnArgs.outcomes))

\* ---- Paper.validate_metadata
\* Keys of the mapping a collector passes as paper_metadata.
ArxivInput == {"arxiv_id", "categories", "comments", "primary_category",
               "published", "updated", "journal_ref"}
ZoteroInput == {"zotero_key", "volume", "issue", "pages", "tags"}
\* Keys from which the other mappings given to validate_metadata are built.
MetaKeys == {"arxiv_id", "categories", "report-no", "report_no",
             "primary_category", "zotero_key", "tags", "extra"}

\* Keys validate_metadata writes for each source.
ArxivKeys == {"arxiv_id", "categories", "comments", "report_no"}
ZoteroKeys == {"zotero_key", "volume", "issue", "pages", "tags"}
NoMetadata == [k \in {} |-> None]

\* dict.get(k, default)
Get(md, k, default) == IF k \in DOMAIN md THEN md[k] ELSE default

\* validate_metadata(self, key, metadata) of a Paper whose source is src.
\* metadata.kind is "dict", "json" (a string that json.loads turns into the
\* mapping metadata.value) or "text" (a string json.loads raises on, which
\* the handler turns into {}).
\* (ValidateKeepsInput: the normalized keys are added to the input mapping.)
ValidateKeepsInput(src, metadata) ==
    IF metadata.kind = "text" THEN NoMetadata
    ELSE LET md == metadata.value
             keys == IF src = "arxiv" THEN ArxivKeys
                     ELSE IF src = "zotero" THEN ZoteroKeys ELSE {}
         IN  [k \in DOMAIN md \cup keys |-> Get(md, k, None)]
validate_metadata(src, metadata) ==
    IF metadata.kind = "text" THEN NoMetadata
    ELSE LET md == metadata.value
         IN  IF src = "arxiv"
             THEN [k \in ArxivKeys |->
                     IF k = "categories" THEN Get(md, "categories", "[]")
                     ELSE IF k = "report_no" THEN Get(md, "report-no", None)
                     ELSE Get(md, k, None)]
             ELSE IF src = "zotero"
             THEN [k \in ZoteroKeys |->
                     IF k = "tags" THEN Get(md, "tags", "[]") ELSE Get(md, k, None)]
             ELSE NoMetadata

MetadataCalls ==
    {[fn |-> "validate_metadata", source |-> src,
      metadata |-> [kind |-> kind, value |-> [k \in keys |-> "v"]]] :
        src \in Sources, kind \in {"dict", "json"},
        keys \in SUBSET MetaKeys \cup {ArxivInput, ZoteroInput}}
    \cup {[fn |-> "validate_metadata", source |-> src,
           metadata |-> [kind |-> "text", value |-> NoMetadata]] : src \in Sources}

ValidateMetadata ==
    /\ fnArgs.fn = "validate_metadata"
    /\ Return("validate_metadata",
              [done |-> TRUE, out |-> validate_metadata(fnArgs.source, fnArgs.metadata)])

\* ---- store_papers on titles that differ by case or whitespace
\* Tables of one committed row, with or without a downloaded pdf, and the
\* empty table.
OneRowTables ==
    {{}} \cup {{[Paper(t, "arxiv", "http") EXCEPT !.id = 1, !.pdf_path = pp,
                                                  !.processed = IF pp = None THEN 0 ELSE 1]} :
                 t \in CaseTitles, pp \in {None, "True"}}

StoreCalls ==
    {[fn |-> "store_papers", db |-> db, papers |-> ps, force |-> f] :
        db \in OneRowTables, f \in BOOLEAN,
        ps \in SeqsUpTo({Paper(t, "zotero", "http") : t \in CaseTitles}, MaxStore)}

\* get_existing_papers() and store_papers(papers, existing_papers) on a
\* database that raises no error.
StorePapersCall ==
    /\ fnArgs.fn = "store_papers"
    /\ LET res == StorePapers(fnArgs.papers, GetExistingPapers(fnArgs.db),
                              fnArgs.force, {}, TRUE, fnArgs.db)
       IN  Return("store_papers", [done |-> TRUE, db |-> res.db, ret |-> res.ret,
                                   skipped |-> res.skipped])

\* ---- _parse_date
\* Strings are sequences of characters. Now stands for datetime.now().
Now == [kind |-> "now"]
ValueError == [kind |-> "ValueError"]
Digits == {"0", "1", "2", "3", "4", "5", "6", "7", "8", "9"}
DigitValue(c) ==
    CASE c = "0" -> 0 [] c = "1" -> 1 [] c = "2" -> 2 [] c = "3" -> 3 [] c = "4" -> 4
      [] c = "5" -> 5 [] c = "6" -> 6 [] c = "7" -> 7 [] c = "8" -> 8 [] c = "9" -> 9
      [] OTHER -> 0
RECURSIVE Number(_)
Number(tok) ==
    IF tok = <<>> THEN 0
    ELSE 10 * Number(SubSeq(tok, 1, Len(tok) - 1)) + DigitValue(tok[Len(tok)])

\* The formats of the loop, in its order.
FormatYMD == <<"%", "Y", "-", "%", "m", "-", "%", "d">>
FormatYM == <<"%", "Y", "-", "%", "m">>
FormatY == <<"%", "Y">>
Formats == <<FormatYMD, FormatYM, FormatY>>

\* What the directives of strptime match: %Y four digits,
\* %m "1[0-2]|0[1-9]|[1-9]", %d "3[01]|[12]\d|0[1-9]|[1-9]| [1-9]".
IsYear(tok) == Len(tok) = 4 /\ \A i \in 1..4 : tok[i] \in Digits
IsMonth(tok) ==
    \/ Len(tok) = 1 /\ tok[1] \in Digits \ {"0"}
    \/ Len(tok) = 2 /\ tok[1] = "1" /\ tok[2] \in {"0", "1", "2"}
    \/ Len(tok) = 2 /\ tok[1] = "0" /\ tok[2] \in Digits \ {"0"}
IsDay(tok) ==
    \/ Len(tok) = 1 /\ tok[1] \in Digits \ {"0"}
    \/ Len(tok) = 2 /\ tok[1] = "3" /\ tok[2] \in {"0", "1"}
    \/ Len(tok) = 2 /\ tok[1] \in {"1", "2"} /\ tok[2] \in Digits
    \/ Len(tok) = 2 /\ tok[1] \in {"0", " "} /\ tok[2] \in Digits \ {"0"}

\* The dates datetime accepts.
DaysIn(y, m) ==
    IF m \in {4, 6, 9, 11} THEN 30
    ELSE IF m # 2 THEN 31
    ELSE IF y % 4 = 0 /\ (y % 100 # 0 \/ y % 400 = 0) THEN 29 ELSE 28
Date(y, m, d) ==
    IF y >= 1 /\ d <= DaysIn(y, m)
    THEN [kind |-> "date", y |-> y, m |-> m, d |-> d]
    ELSE ValueError

\* datetime.strptime(str, fmt): the whole of str has to match fmt.
Strptime(str, fmt) ==
    LET n     == Len(str)
        year  == SubSeq(str, 1, 4)
        \* lengths of the month token for which the string matches
        mlens == {ml \in {1, 2} :
                    /\ n >= 5 + ml
                    /\ IsYear(year) /\ str[5] = "-"
                    /\ IsMonth(SubSeq(str, 6, 5 + ml))
                    /\ IF fmt = FormatYM THEN n = 5 + ml
                       ELSE /\ n >= 6 + ml + 1
                            /\ str[6 + ml] = "-"
                            /\ IsDay(SubSeq(str, 7 + ml, n))}
    IN  IF fmt = FormatY
        THEN IF n = 4 /\ IsYear(year) THEN Date(Number(year), 1, 1) ELSE ValueError
        ELSE IF mlens = {} THEN ValueError
        ELSE LET ml == CHOOSE l \in mlens : TRUE
                 month == Number(SubSeq(str, 6, 5 + ml))
             IN  IF fmt = FormatYM THEN Date(Number(year), month, 1)
                 ELSE Date(Number(year), month,
                           Number(SelectSeq(SubSeq(str, 7 + ml, n), LAMBDA c : c # " ")))

\* date_str[:k]
Slice(str, k) == SubSeq(str, 1, IF k < Len(str) THEN k ELSE Len(str))

\* "for fmt in [...]: try: return datetime.strptime(date_str[:len(fmt)], fmt)
\*  except ValueError: continue", then "return datetime.now()".
RECURSIVE ParseLoop(_, _)
ParseLoop(date_str, i) ==
    IF i > Len(Formats) THEN Now
    ELSE LET parsed == Strptime(Slice(date_str, Len(Formats[i])), Formats[i])
         IN  IF parsed # ValueError THEN parsed ELSE ParseLoop(date_str, i + 1)

\* _parse_date(date_str); the argument is None (given = FALSE) when the item
\* has no 'date', else the string str.
parse_date(date_str) ==
    IF ~date_str.given \/ date_str.str = <<>> THEN Now ELSE ParseLoop(date_str.str, 1)

\* The date strings: year, year-month and year-month-day with and without
\* leading zeros, with a time or a letter behind, and text that is no date.
YearTokens == {<<"2", "0", "2", "3">>, <<"2", "0", "2", "4">>}
MonthTokens == {<<"1">>, <<"2">>, <<"0", "5">>, <<"1", "2">>, <<"1", "3">>}
DayTokens == {<<"5">>, <<"0", "9">>, <<"1", "5">>, <<"2", "9">>, <<"3", "1">>, <<"3", "2">>}
Suffixes == {<<>>, <<"T", "1", "0">>}
DateStrings ==
    {<<>>, <<"M", "a", "y", " ", "2", "0", "2", "3">>, <<"2", "0">>}
    \cup {y \o x : y \in YearTokens, x \in Suffixes}
    \cup {y \o <<"-">> \o m \o x : y \in YearTokens, m \in MonthTokens, x \in Suffixes}
    \cup {y \o <<"-">> \o m \o <<"-">> \o d \o x :
            y \in YearTokens, m \in MonthTokens, d \in DayTokens, x \in Suffixes}

DateCalls ==
    {[fn |-> "_parse_date", date_str |-> [given |-> TRUE, str |-> str]] :
        str \in DateStrings}
    \cup {[fn |-> "_parse_date", date_str |-> [given |-> FALSE, str |-> <<>>]]}

ParseDate ==
    /\ fnArgs.fn = "_parse_date"
    /\ Return("_parse_date", [done |-> TRUE, out |-> parse_date(fnArgs.date_str)])

\* ---- _extract_authors
\* A creator of a Zotero item: a dict that may lack each of the keys name,
\* firstName and lastName (Absent).
Absent == "absent"
Creators ==
    [creatorType : {"author", "editor"}, name : {Absent, "N"},
     firstName : {Absent, "F"}, lastName : {Absent, "L"}]

RECURSIVE AuthorsLoop(_, _, _)
AuthorsLoop(creators, i, authors) ==
    IF i > Len(creators) THEN authors
    ELSE LET creator == creators[i]
         IN  IF creator.creatorType = "author"
             THEN IF creator.name # Absent
                  THEN AuthorsLoop(creators, i + 1, Append(authors, creator.name))
                  ELSE IF creator.firstName # Absent /\ creator.lastName # Absent
                  THEN AuthorsLoop(creators, i + 1,
                                   Append(authors, creator.lastName \o ", " \o creator.firstName))
                  ELSE AuthorsLoop(creators, i + 1, authors)
             ELSE AuthorsLoop(creators, i + 1, authors)

\* "return authors or ["Unknown Author"]"
\* (ExtractAuthorsNoFallback: "return authors".)
ExtractAuthorsNoFallback(creators) == AuthorsLoop(creators, 1, <<>>)
extract_authors(creators) ==
    LET authors == AuthorsLoop(creators, 1, <<>>)
    IN  IF authors = <<>> THEN <<"Unknown Author">> ELSE authors

AuthorCalls ==
    {[fn |-> "_extract_authors", creators |-> cs] : cs \in SeqsUpTo(Creators, MaxCreators)}

ExtractAuthors ==
    /\ fnArgs.fn = "_extract_authors"
    /\ Return("_extract_authors", [done |-> TRUE, out |-> extract_authors(fnArgs.creators)])

\* ---- store_papers on a snapshot taken at another time
\* get_existing_papers() ran on the table snapshot, store_papers runs on the
\* table db: the two may differ.
SnapshotStoreCalls ==
    {[fn |-> "store_papers on snapshot", snapshot |-> snap, db |-> db,
      papers |-> ps, force |-> f] :
        snap \in OneRowTables, db \in OneRowTables, f \in BOOLEAN,
        ps \in SeqsUpTo({Paper(t, "zotero", "http") : t \in {"Deep Nets", "Y"}}, MaxStore)}

StorePapersOnSnapshot ==
    /\ fnArgs.fn = "store_papers on snapshot"
    /\ LET res == StorePapers(fnArgs.papers, GetExistingPapers(fnArgs.snapshot),
                              fnArgs.force, {}, TRUE, fnArgs.db)
       IN  Return("store_papers on snapshot",
                  [done |-> TRUE, db |-> res.db, ret |-> res.ret,
                   inserted |-> res.inserted, deleted |-> res.deleted])

\* ---- collect_all('arxiv'), run twice on the same search results
\* One invocation on table db: collect_from_arxiv hands every paper it
\* collects to add_to_zotero, then store_papers runs on the snapshot
\* collect_all took first.  published are the papers handed to create_items.
collect_all_arxiv(db, results, forceUpdate) ==
    LET c   == collect_from_arxiv(results, [i \in DOMAIN results |-> "ok"])
        res == StorePapers(c.collected, GetExistingPapers(db), forceUpdate, {}, TRUE, db)
    IN  [db |-> res.db, ret |-> res.ret,
         published |-> c.collected]

RerunCalls ==
    {[fn |-> "collect_all twice", results |-> rs, force |-> f] :
        rs \in SeqsUpTo(Titles, MaxResults), f \in BOOLEAN}

CollectAllTwice ==
    /\ fnArgs.fn = "collect_all twice"
    /\ LET first  == collect_all_arxiv({}, fnArgs.results, FALSE)
           second == collect_all_arxiv(first.db, fnArgs.results, fnArgs.force)
       IN  Return("collect_all twice",
                  [done |-> TRUE, first |-> first, second |-> second])

\* ---- two invocations of collect_all that overlap
\* Both take their snapshot of the empty table before either runs
\* store_papers; the first stores its batch, then the second stores its own
\* on the snapshot it took.  fetched is what main hands to the download stage.
OverlapCalls ==
    {[fn |-> "collect_all overlapping", first |-> ps1, second |-> ps2, force |-> f] :
        ps1, ps2 \in SeqsUpTo({Paper(t, "zotero", "http") : t \in Titles}, MaxStore),
        f \in BOOLEAN}

CollectAllOverlapping ==
    /\ fnArgs.fn = "collect_all overlapping"
    /\ LET snapshot == GetExistingPapers({})
           one == StorePapers(fnArgs.first, snapshot, fnArgs.force, {}, TRUE, {})
           two == StorePapers(fnArgs.second, snapshot, fnArgs.force, {}, TRUE, one.db)
       IN  Return("collect_all overlapping",
                  [done |-> TRUE, between |-> one.db, db |-> two.db,
                   ret |-> two.ret, errors |-> two.errors,
                   fetched |-> DownloadBatch(fnArgs.second,
                                   collect_all_return(fnArgs.second, two.ret).stored)])

\* ---- the calls and their specification
HelperCalls ==
    {c \in ArxivCalls : Len(c.results) = Len(c.outcomes)}
    \cup MetadataCalls
    \cup StoreCalls
    \cup DateCalls
    \cup AuthorCalls
    \cup SnapshotStoreCalls
    \cup RerunCalls
    \cup OverlapCalls

InitHelpers ==
    /\ AtRest
    /\ fnArgs \in HelperCalls
    /\ fnRet = NoRet

NextHelpers ==
    \/ CollectFromArxiv
    \/ ValidateMetadata
    \/ StorePapersCall
    \/ ParseDate
    \/ ExtractAuthors
    \/ StorePapersOnSnapshot
    \/ CollectAllTwice
    \/ CollectAllOverlapping

SpecHelpers == InitHelpers /\ [][NextHelpers]_vars

\* ================================================================ claims

\* ---- C1 (SpecConc)
\* C1: Store uniqueness. In every table state reached by any sequence of
\* store_papers calls, with or without force-update, no two rows share a title.
C1_StoreUniqueness == \A a, b \in store : a.title = b.title => a = b

\* Two calls have committed, the second one replaced a row under force-update.
C1_Witness ==
    /\ lastCall.n = 2
    /\ lastCall.force
    /\ lastCall.ret # <<>>
    /\ lastCall.ret[1].title \in DOMAIN lastCall.existing
    /\ lastCall.after = store
    /\ store # {}

\* ---- C2 (SpecDedup)
C2_Titles(ps) == {ps[i].title : i \in DOMAIN ps}
C2_First(ps, t) == CHOOSE i \in DOMAIN ps : ps[i].title = t /\ \A j \in 1..(i - 1) : ps[j].title # t

\* C2: Dedup correctness. deduplicate_papers applied to the concatenation of
\* two batches returns exactly one record per distinct title, namely the first
\* occurrence in concatenation order, in the order of these first occurrences,
\* whatever the records' source.
C2_DedupFirstOccurrence ==
    dedupOut.done =>
        LET ps  == dedupIn.b1 \o dedupIn.b2
            out == dedupOut.out
        IN  /\ C2_Titles(out) = C2_Titles(ps)
            /\ \A t \in C2_Titles(ps) :
                  Cardinality({i \in DOMAIN out : out[i].title = t}) = 1
            /\ \A i \in DOMAIN out : out[i] = ps[C2_First(ps, out[i].title)]
            /\ \A i, j \in DOMAIN out :
                  i < j => C2_First(ps, out[i].title) < C2_First(ps, out[j].title)

\* A = [X, Y] from arxiv, B = [X, Z] from zotero gives [X from A, Y, Z].
C2_Witness ==
    /\ dedupOut.done
    /\ dedupIn.b1 = <<Paper("X", "arxiv", "http"), Paper("Y", "arxiv", "http")>>
    /\ dedupIn.b2 = <<Paper("X", "zotero", "http"), Paper("Z", "zotero", "http")>>
    /\ dedupOut.out = <<Paper("X", "arxiv", "http"), Paper("Y", "arxiv", "http"),
                        Paper("Z", "zotero", "http")>>

\* ---- C3 (Spec)
C3_FirstOccurrence(ps, i) == \A j \in 1..(i - 1) : ps[j].title # ps[i].title
C3_Keep(c, i) ==
    LET t == c.papers[i].title
    IN  \/ t \notin DOMAIN c.existing
        \/ (~c.existing[t].has_pdf /\ c.force)
C3_Kept(c) == {i \in DOMAIN c.papers : C3_FirstOccurrence(c.papers, i) /\ C3_Keep(c, i)}
C3_Dropped(c) == {i \in DOMAIN c.papers : C3_FirstOccurrence(c.papers, i) /\ ~C3_Keep(c, i)}
C3_Nth(S, k) == CHOOSE i \in S : Cardinality({j \in S : j < i}) = k - 1

C5_ForceReplace ==
    (lastCall.n > 0 /\ lastCall.force) =>
        \A i \in DOMAIN lastCall.papers :
            LET t == lastCall.papers[i].title IN
            ( /\ C3_FirstOccurrence(lastCall.papers, i)
              /\ t \in DOMAIN lastCall.existing
              /\ ~lastCall.existing[t].has_pdf
              /\ \E old \in lastCall.before : old.title = t /\ old.pdf_path = None )
            => /\ Cardinality({row \in lastCall.after : row.title = t}) = 1
               /\ \A row \in lastCall.after :
                     row.title = t => [row EXCEPT !.id = 0] = lastCall.papers[i]

\* A row without pdf was replaced by a record with another url.
C5_Witness ==
    /\ lastCall.n = 2
    /\ lastCall.force
    /\ \E old \in lastCall.before, new \in lastCall.after :
          /\ old.title = new.title
          /\ old.pdf_path = None
          /\ old.url # new.url
          /\ old \notin lastCall.after

\* ---- C6 (SpecFetch)
\* C6: Concurrency bound. While the download stage runs over more records than
\* the semaphore is wide, the number of retrievals inside the semaphore, and so
\* the number of requests in flight, never exceeds the width.
C6_ConcurrencyBound ==
    \A r \in Runs :
        /\ Cardinality(Holding(r)) <= SemaphoreWidth
        /\ Cardinality(InFlight(r)) <= SemaphoreWidth

\* The gate is full and a record waits.
C6_Witness ==
    /\ Len(stored["r1"]) > SemaphoreWidth
    /\ Cardinality(InFlight("r1")) = SemaphoreWidth
    /\ waiters["r1"] # <<>>

\* ---- C7 (SpecFaults)
C7_NoneCommitted(c) == c.after = c.before
C7_AllCommitted(c) ==
    \A i \in C3_Kept(c) :
        /\ Cardinality({row \in c.after : row.title = c.papers[i].title}) = 1
        /\ \E row \in c.after : [row EXCEPT !.id = 0] = c.papers[i]

\* C7: PERSIST atomicity. After store_papers returns, either every insert and
\* delete it decided on is committed, or none is and the table equals the
\* table before the call.
C7_Atomicity ==
    lastCall.n > 0 => (C7_AllCommitted(lastCall) \/ C7_NoneCommitted(lastCall))

\* ---- C8 (SpecFaults)
\* C8: PersistenceConflict result. Whenever an insert, a delete or the final
\* commit of a store_papers call raises, the call returns the empty sequence.
C8_ErrorReturnsEmpty == lastCall.errors > 0 => lastCall.ret = <<>>

\* ---- C9 (SpecFaults)
\* C9: store_papers returns only persisted records. Every record of the
\* returned sequence is a row of the table when the call returns.
C9_ReturnedArePersisted ==
    \A k \in DOMAIN lastCall.ret : lastCall.ret[k] \in lastCall.after

\* ---- C10 (SpecFetch)
C10_NoUrl(r) == {i \in DOMAIN stored[r] : stored[r][i].url = None}

\* C10 as stated: a record without url gets the outcome None at once, without
\* a request and without a change of the table.
C10_OutcomeNoneImmediately ==
    \A r \in Runs : \A i \in C10_NoUrl(r) :
        /\ task[r][i] \in {"new", "done"}
        /\ task[r][i] = "done" => result[r][i] = None
        /\ requests[r][i] = 0
        /\ stored[r][i] \in store

\* C10 (amended): a record without url gets the falsy outcome False once it
\* holds a slot of the semaphore, for which it queues like every other record;
\* no request is sent for it, no file is written and its row, like the object,
\* stays without pdf_path and unprocessed.
C10_NoUrlFalseWithoutRequest ==
    \A r \in Runs : \A i \in C10_NoUrl(r) :
        /\ task[r][i] \in {"new", "waiting", "admitted", "done"}
        /\ result[r][i] = IF task[r][i] = "done" THEN "False" ELSE "pending"
        /\ requests[r][i] = 0
        /\ stored[r][i] \in store
        /\ stored[r][i].pdf_path = None /\ stored[r][i].processed = 0
        /\ PdfPath(stored[r][i].id) \notin files

\* The last record has no url: it queued, got its slot and returned False
\* while other retrievals were still in flight.
C10_Witness ==
    /\ NumFetch \in C10_NoUrl("r1")
    /\ task["r1"][NumFetch] = "done"
    /\ result["r1"][NumFetch] = "False"
    /\ InFlight("r1") # {}

C12_ProcessedHasPath ==
    \A row \in store : row.processed = 1 => row.pdf_path # None

\* The bulk delete of a --flush raised, the files are gone, and its sync_db
\* reset a row that was processed.
C12_Witness ==
    /\ lastOp.op = "flush"
    /\ lastOp.error
    /\ \E old \in lastOp.before, row \in store :
          /\ old.id = row.id
          /\ old.processed = 1
          /\ row.processed = 0
          /\ row.pdf_path = None

\* ---- C13 (Spec)
C13_Row(r, i) == {row \in store : row.id = stored[r][i].id}

\* C13: after a retrieval that ended with status 200 and the marking by
\* download_and_update, the row of the record has processed = 1 and its
\* pdf_path is PDF_DIR/{id}.pdf for its persisted id, which is also the value
\* download_and_update returned.
C13_MarkedWithDerivedPath ==
    \A r \in Runs : \A i \in DOMAIN task[r] :
        (response[r][i] = "200" /\ task[r][i] = "done" /\ result[r][i] \notin {"False", None})
        => /\ C13_Row(r, i) # {}
           /\ \A row \in C13_Row(r, i) :
                 /\ row.processed = 1
                 /\ row.pdf_path = PdfPath(row.id)
                 /\ result[r][i] = PdfPath(row.id)

\* ---- C14 (SpecFetch)
\* C14: no retry inside the download stage. During one download_with_progress
\* each record is the subject of at most one request, also when the request
\* ends with a non-200 status or a transport error.
C14_AtMostOneRequest ==
    \A r \in Runs : \A i \in DOMAIN requests[r] : requests[r][i] <= 1

\* The record that had to queue got its slot, its request failed, and the
\* stage has ended.
C14_Witness ==
    /\ pc["r1"] = "DONE"
    /\ response["r1"][NumFetch] = "error"
    /\ requests["r1"][NumFetch] = 1
    /\ result["r1"][NumFetch] = "False"

\* ---- C15 (SpecFetch)
\* C15: a retrieval that ends with a non-200 status or a transport error
\* yields the falsy outcome False and leaves the record as it was stored: its
\* row and its object keep pdf_path = None and processed = 0, no file is
\* written, and the invocation is not ended by it.
C15_FailedLeavesUnchanged ==
    \A r \in Runs : \A i \in DOMAIN response[r] :
        response[r][i] = "error"
        => /\ task[r][i] = "done"
           /\ result[r][i] = "False"
           /\ stored[r][i] \in store
           /\ stored[r][i].pdf_path = None
           /\ stored[r][i].processed = 0
           /\ ~Exists(files, PdfPath(stored[r][i].id))
           /\ pc[r] \in {"FETCH_ARTIFACTS", "DONE"}

\* The stage has ended with one record failed and another one marked.
C15_Witness ==
    /\ pc["r1"] = "DONE"
    /\ \E i, j \in DOMAIN response["r1"] :
          /\ response["r1"][i] = "error"
          /\ result["r1"][j] = "True"

\* ---- C16 (SpecFetch)
\* download_pdf returns for record i in this step.
C16_FetchReturns(r, i) ==
    /\ pc[r] = "FETCH_ARTIFACTS"
    /\ task[r][i] \in {"new", "waiting", "admitted", "inflight"}
    /\ task'[r][i] \in {"reconcile", "done"}

\* C16 as stated: download_pdf does not touch the table: a fetch of a record,
\* successful or not, leaves every row unchanged.
C16_FetcherLeavesStore ==
    [][\A r \in Runs : \A i \in DOMAIN task[r] :
          C16_FetchReturns(r, i) => store' = store]_vars

\* C16 (amended): a fetch that does not end with status 200 leaves every row
\* unchanged; a fetch that ends with status 200 leaves every row unchanged or
\* replaces the row of its own record, and that row only, by the record with
\* pdf_path = PDF_DIR/{id}.pdf and processed = 1, written by download_pdf
\* itself before download_and_update marks the record again.
C16_FetcherWritesOwnRow ==
    [][\A r \in Runs : \A i \in DOMAIN task[r] :
          C16_FetchReturns(r, i) =>
             LET paper == stored[r][i]
                 obj   == [paper EXCEPT !.pdf_path = PdfPath(paper.id), !.processed = 1]
             IN  \/ store' = store
                 \/ /\ response'[r][i] = "200"
                     /\ store' = {row \in store : row.id # paper.id} \cup {obj}]_vars

\* download_pdf has written the row of a record that download_and_update
\* has not marked yet, and the row of a failed record is as it was stored.
C16_Witness ==
    \E i, j \in DOMAIN task["r1"] :
        /\ task["r1"][i] = "reconcile"
        /\ \E row \in store :
              /\ row.id = stored["r1"][i].id
              /\ row.pdf_path = PdfPath(row.id)
              /\ row.processed = 1
        /\ response["r1"][j] = "error"
        /\ stored["r1"][j] \in store

\* ---- C17 (Spec)
C17_HadPdf(c, title) == \E old \in c.before : old.title = title /\ old.pdf_path # None
C17_Collected(c, paper) ==
    {k \in DOMAIN c.papers : c.papers[k] = [paper EXCEPT !.id = 0]}

\* C17: the download stage works on exactly the records store_papers newly
\* stored in the same invocation. Its batch is the returned sequence; every
\* record a request is sent for is one of them, its title was not in the
\* table with a pdf before the invocation, and it is not a record store_papers
\* dropped; when the stage has ended, a request was sent for every returned
\* record that has a url.
C17_FetchOnlyNew ==
    \A r \in Runs :
        pc[r] \in {"FETCH_ARTIFACTS", "DONE"} =>
            /\ Len(stored[r]) = Len(lastCall.ret)
            /\ DOMAIN requests[r] = DOMAIN lastCall.ret
            /\ \A i \in DOMAIN requests[r] :
                  /\ requests[r][i] > 0 =>
                        /\ stored[r][i].id = lastCall.ret[i].id
                        /\ stored[r][i].title = lastCall.ret[i].title
                        /\ lastCall.ret[i] \in lastCall.after
                        /\ ~C17_HadPdf(lastCall, lastCall.ret[i].title)
                        /\ C17_Collected(lastCall, lastCall.ret[i]) \cap C3_Kept(lastCall) # {}
                        /\ C17_Collected(lastCall, lastCall.ret[i]) \cap C3_Dropped(lastCall) = {}
                  /\ (pc[r] = "DONE" /\ lastCall.ret[i].url # None) => requests[r][i] = 1

\* A run under force-update over [X, Y] where X was in the table with its
\* pdf and Y is new: the stage has ended and only Y was requested.
C17_Witness ==
    /\ pc["r2"] = "DONE"
    /\ lastCall.n = 2
    /\ lastCall.force
    /\ Len(lastCall.papers) = 2
    /\ C17_HadPdf(lastCall, lastCall.papers[1].title)
    /\ Len(lastCall.ret) = 1
    /\ lastCall.ret[1].title = lastCall.papers[2].title
    /\ requests["r2"] = <<1>>

\* ---- C18 (Spec)
C18_Rank(p) ==
    CASE p = "INIT" -> 0
      [] p = "COLLECT" -> 1
      [] p = "PERSIST" -> 2
      [] p = "FETCH_ARTIFACTS" -> 3
      [] p = "DONE" -> 4
      [] OTHER -> 5

\* No stage is entered again or taken out of order; the batch is collected
\* after the snapshot; a request is only sent once store_papers has returned.
C18_Forward ==
    \A r \in Runs :
        /\ C18_Rank(pc'[r]) >= C18_Rank(pc[r])
        /\ papers'[r] # papers[r] => (pc[r] = "COLLECT" \/ pc'[r] = "EXITED")
        /\ existing'[r] # existing[r] => (pc[r] = "INIT" \/ pc'[r] = "EXITED")
        /\ requests'[r] # requests[r] =>
              \/ pc[r] \in {"PERSIST", "FETCH_ARTIFACTS"}
              \/ pc'[r] = "EXITED"
C18_RequestsAfterPersist ==
    \A r \in Runs : \A i \in DOMAIN requests[r] :
        requests[r][i] > 0 => pc[r] \in {"FETCH_ARTIFACTS", "DONE"}

\* Records download_and_update has marked (or failed to mark), and records
\* whose download_pdf has not returned.
C18_Reconciled(r) == {i \in DOMAIN result[r] : result[r][i] \in {"True", None}}
C18_Fetching(r) ==
    {i \in DOMAIN task[r] : task[r][i] \in {"new", "waiting", "admitted", "inflight"}}

\* C18 as stated: the stages are visited in the order SNAPSHOT, COLLECT,
\* DEDUP, PERSIST, FETCH_ARTIFACTS, RECONCILE, DONE, each at most once: no
\* request is sent before store_papers has returned, and RECONCILE follows
\* FETCH_ARTIFACTS, so that no record is reconciled while a retrieval of the
\* run is still to return.
C18_StageOrder ==
    /\ C18_RequestsAfterPersist
    /\ \A r \in Runs : C18_Reconciled(r) # {} => C18_Fetching(r) = {}

\* C18 (amended): an invocation goes through snapshot, collection,
\* store_papers (dedup and persist), the download stage and DONE in that
\* order, each at most once; the snapshot precedes the collection and no
\* request is sent before store_papers has returned; inside the download
\* stage each record is reconciled after its own retrieval has returned with
\* status 200, possibly while retrievals of other records are still to return.
C18_StageOrderPerRecord ==
    /\ [][C18_Forward]_vars
    /\ [](C18_RequestsAfterPersist)
    /\ [](\A r \in Runs : \A i \in C18_Reconciled(r) :
             response[r][i] = "200" /\ i \notin C18_Fetching(r))

\* The first record is reconciled while the request of the second is in flight.
C18_Witness ==
    \E r \in Runs :
        /\ Len(stored[r]) = 2
        /\ result[r][1] = "True"
        /\ task[r][2] = "inflight"

\* ---- C19 (SpecFaults)
\* C19: partial-success collection. When the provider call of collect_papers
\* fails, the invocation is not ended by it: it goes on to store_papers with
\* an empty contribution of that source.
C19_CollectFailureContinues ==
    [][\A r \in Runs :
          (pc[r] = "COLLECT" /\ pc'[r] # "COLLECT") => pc'[r] = "PERSIST"]_vars

\* ---- C20 (SpecFetch)
\* download_and_update of record i returns a failure in this step.
C20_Fails(r, i) ==
    /\ pc[r] = "FETCH_ARTIFACTS"
    /\ result[r][i] = "pending"
    /\ result'[r][i] \in {"False", None}

C20_Marked(r, i) ==
    \E row \in store :
        /\ row.id = stored[r][i].id
        /\ row.title = stored[r][i].title
        /\ row.processed = 1
        /\ row.pdf_path # None

\* The failing step changes neither the table nor anything of another record
\* (but hands its slot to the oldest queued one) and does not end the stage.
C20_Confined ==
    \A r \in Runs : \A i \in DOMAIN result[r] :
        C20_Fails(r, i) =>
            /\ store' = store
            /\ pc'[r] = "FETCH_ARTIFACTS"
            /\ \A j \in DOMAIN result[r] \ {i} :
                  /\ result'[r][j] = result[r][j]
                  /\ response'[r][j] = response[r][j]
                  /\ requests'[r][j] = requests[r][j]
                  /\ stored'[r][j] = stored[r][j]
                  /\ \/ task'[r][j] = task[r][j]
                     \/ task[r][j] = "waiting" /\ task'[r][j] = "admitted"

\* When gather has returned, every record has its outcome and every record
\* whose fetch and marking succeeded is marked in the table.
C20_Completes ==
    \A r \in Runs :
        /\ pc[r] # "FAILED"
        /\ pc[r] = "DONE" =>
              \A i \in DOMAIN result[r] :
                  /\ result[r][i] \in {"True", "False", None}
                  /\ result[r][i] = "True" => C20_Marked(r, i)

\* C20: isolation inside the download stage. A failure while fetching or
\* marking one record (download error or database update error) is confined
\* to that record: every other record still gets its own outcome and, when
\* its fetch succeeded, is marked, and the batch as a whole completes.
C20_Isolation ==
    /\ [][C20_Confined]_vars
    /\ [](C20_Completes)

\* The stage has ended: one download failed, the marking of another record
\* raised, and a third record is marked.
C20_Witness ==
    /\ pc["r1"] = "DONE"
    /\ \E i, j, k \in DOMAIN result["r1"] :
          /\ response["r1"][i] = "error"
          /\ response["r1"][j] = "200" /\ result["r1"][j] = None
          /\ result["r1"][k] = "True" /\ C20_Marked("r1", k)

\* ---------------------------------------------------------------- C21
\* What the row of record i is once its task is over, given the outcome of
\* the task alone: True (downloaded and marked), None (downloaded, the
\* caller's update raised), False (not downloaded, or the fetcher's update
\* raised).
C21_FinalRow(r, i) ==
    LET paper == lastCall.ret[i]
    IN  IF result[r][i] = "True"
        THEN [paper EXCEPT !.pdf_path = "True", !.processed = 1]
        ELSE IF result[r][i] = None
        THEN [paper EXCEPT !.pdf_path = PdfPath(paper.id), !.processed = 1]
        ELSE paper

\* C21: when the download stage of a batch has ended, the table is the one
\* that the outcomes of the records determine, record by record, whatever
\* the order in which the downloads and the updates completed.
C21_OrderIndependent ==
    \A r \in Runs :
        (pc[r] = "DONE" /\ stored[r] # <<>>) =>
            store = {C21_FinalRow(r, i) : i \in DOMAIN task[r]}

C21_Witness ==
    /\ pc["r1"] = "DONE"
    /\ \E i, j, k \in DOMAIN task["r1"] :
          /\ i < j /\ j < k
          /\ result["r1"][i] = "False" /\ response["r1"][i] = "error"
          /\ result["r1"][j] = None
          /\ result["r1"][k] = "True"

\* ---------------------------------------------------------------- C22
\* C22: tasks leave the semaphore's queue in the order gather created them:
\* while a record waits for a slot, no record submitted after it has been
\* given one, and the queue lists the waiting records in submission order.
C22_FifoAdmission ==
    \A r \in Runs :
        /\ \A i, j \in DOMAIN task[r] :
              (i < j /\ task[r][i] = "waiting") => task[r][j] \in {"new", "waiting"}
        /\ \A k, l \in DOMAIN waiters[r] : k < l => waiters[r][k] < waiters[r][l]

\* The sixth record got its slot and sent its request while the seventh,
\* which queued behind it, is still waiting.
C22_Witness ==
    /\ Len(task["r1"]) > SemaphoreWidth + 1
    /\ task["r1"][SemaphoreWidth + 1] = "inflight"
    /\ task["r1"][SemaphoreWidth + 2] = "waiting"

\* ---------------------------------------------------------------- C23
\* Results for which add_to_zotero was called and the item was not created.
C23_PublishFailed ==
    {i \in 1..Len(fnArgs.results) :
        fnRet.reports[i] # None /\ fnArgs.outcomes[i] # "ok"}

\* C23: when the write sink raises for a record or rejects it, the failure
\* is reported, nothing is raised to the caller of the collector, and the
\* record and every later record are collected.
C23_PublishIndependence ==
    (fnArgs.fn = "collect_from_arxiv" /\ fnRet.done) =>
        /\ ~fnRet.raised
        /\ {p.title : p \in {fnRet.collected[k] : k \in DOMAIN fnRet.collected}}
             = {fnArgs.results[i] : i \in DOMAIN fnArgs.results}
        /\ \A i \in C23_PublishFailed : fnRet.reports[i] = "Error adding to Zotero"

\* ---------------------------------------------------------------- C24
C24_KeysOf(src) == IF src = "arxiv" THEN ArxivKeys ELSE ZoteroKeys

\* C24: the metadata written on a record has the keys of the record's source
\* and no other: exactly those keys when the input is a mapping, whatever
\* keys the mapping has, and never a key of the other source or of the input
\* alone.
C24_KeysBySource ==
    (fnArgs.fn = "validate_metadata" /\ fnRet.done) =>
        /\ DOMAIN fnRet.out \subseteq C24_KeysOf(fnArgs.source)
        /\ fnArgs.metadata.kind # "text" =>
              DOMAIN fnRet.out = C24_KeysOf(fnArgs.source)

\* The mapping collect_from_arxiv builds, with keys that are not arXiv keys.
C24_Witness ==
    /\ fnArgs.fn = "validate_metadata" /\ fnRet.done
    /\ fnArgs.source = "arxiv"
    /\ DOMAIN fnArgs.metadata.value = ArxivInput
    /\ "primary_category" \notin DOMAIN fnRet.out
    /\ DOMAIN fnRet.out = ArxivKeys

\* ---------------------------------------------------------------- C25
\* C25: organize_papers reads exactly the rows of the given source that are
\* processed and not organized; afterwards every row organize_paper
\* succeeded on has organized = 1 and every row it failed on is unchanged.
C25_OrganizeMarks ==
    (lastOp.op = "organize" /\ ~lastOp.error) =>
        /\ lastOp.selected =
              {row \in lastOp.before :
                  row.processed = 1 /\ row.organized = 0 /\ row.source = lastOp.source}
        /\ \A row \in lastOp.succeeded : [row EXCEPT !.organized = 1] \in lastOp.after
        /\ \A row \in lastOp.selected \ lastOp.succeeded : row \in lastOp.after

\* ---------------------------------------------------------------- C26
C26_TitlesOf(q) == {q[i].title : i \in DOMAIN q}

\* C26: records whose titles differ only by case or whitespace are one
\* identity: of the records store_papers returns no two have the same
\* normalized title, and without force-update none has the normalized title
\* of a row of the table.
C26_NormalizedIdentity ==
    (fnArgs.fn = "store_papers" /\ fnRet.done) =>
        /\ \A i, j \in DOMAIN fnRet.ret :
              NormalizedTitle(fnRet.ret[i].title) = NormalizedTitle(fnRet.ret[j].title)
                  => i = j
        /\ ~fnArgs.force =>
              \A i \in DOMAIN fnRet.ret : \A row \in fnArgs.db :
                  NormalizedTitle(fnRet.ret[i].title) # NormalizedTitle(row.title)

\* Identity is the title as given: store_papers returns one record for each
\* different title string of the batch that the table does not hold (or
\* holds without pdf, under force-update), so titles that differ by case or
\* whitespace are stored side by side; a title string that occurs again in
\* the batch, or is in the table, is not stored again.
C26_ExactTitleIdentity ==
    (fnArgs.fn = "store_papers" /\ fnRet.done) =>
        LET accepted ==
              {t \in C26_TitlesOf(fnArgs.papers) :
                  \A row \in fnArgs.db :
                      row.title = t => (fnArgs.force /\ row.pdf_path = None)}
        IN  /\ C26_TitlesOf(fnRet.ret) = accepted
            /\ Len(fnRet.ret) = Cardinality(accepted)
            /\ {row.title : row \in fnRet.db} =
                  {row.title : row \in fnArgs.db} \cup accepted

\* Two titles that differ by case only, stored side by side next to a row
\* whose title differs from both by whitespace only.
C26_Witness ==
    /\ fnArgs.fn = "store_papers" /\ fnRet.done
    /\ ~fnArgs.force
    /\ C26_TitlesOf(fnArgs.papers) = {"Deep Nets", "deep nets"}
    /\ {row.title : row \in fnArgs.db} = {"Deep  Nets"}
    /\ C26_TitlesOf(fnRet.ret) = {"Deep Nets", "deep nets"}
    /\ Cardinality(fnRet.db) = 3

\* ---------------------------------------------------------------- C27
\* A step of main --flush.
C27_FlushStep == lastOp'.op = "flush" /\ lastOp'.before = store

\* A step in which store_papers runs.
C27_PersistStep == lastCall'.n # lastCall.n

\* C27: a title leaves the table only in a step of the reset command, and a
\* step of store_papers, with or without force-update, leaves every row that
\* has a pdf_path in the table as it is.
C27_NeverDeleted ==
    [][ /\ (\E row \in store : \A other \in store' : other.title # row.title)
            => C27_FlushStep
        /\ C27_PersistStep =>
              \A row \in store : row.pdf_path # None => row \in store'
      ]_vars

\* store_papers ran under force-update on a batch with the title of a row
\* that has a pdf_path, and the row is still there.
C27_Witness ==
    /\ lastCall.n > 0
    /\ lastCall.force
    /\ \E row \in lastCall.before :
          /\ row.pdf_path # None
          /\ \E i \in DOMAIN lastCall.papers : lastCall.papers[i].title = row.title
          /\ row \in lastCall.after

\* ---------------------------------------------------------------- C28
\* The first of the three formats the whole string is written in, if any.
C28_FirstFormat(str) ==
    IF str = <<>> THEN Now
    ELSE IF Strptime(str, FormatYMD) # ValueError THEN Strptime(str, FormatYMD)
    ELSE IF Strptime(str, FormatYM) # ValueError THEN Strptime(str, FormatYM)
    ELSE IF Strptime(str, FormatY) # ValueError THEN Strptime(str, FormatY)
    ELSE Now

\* C28: _parse_date returns the date of the first of the formats YYYY-MM-DD,
\* YYYY-MM, YYYY that the string is written in (that day, the first of that
\* month, the first of that year), and the current time only when the string
\* is empty or in none of them.
C28_ParsesInOrder ==
    (fnArgs.fn = "_parse_date" /\ fnRet.done) =>
        fnRet.out = C28_FirstFormat(fnArgs.date_str.str)

\* ---------------------------------------------------------------- C29
\* An author entry that has a name, or a first and a last name.
C29_Usable(creator) ==
    /\ creator.creatorType = "author"
    /\ creator.name # Absent \/ (creator.firstName # Absent /\ creator.lastName # Absent)

C29_NameOf(creator) ==
    IF creator.name # Absent THEN creator.name
    ELSE creator.lastName \o ", " \o creator.firstName

\* C29: for every creators list _extract_authors returns a non-empty list:
\* the names of the usable author entries in their order, an entry's name
\* going before its "Last, First", and ["Unknown Author"] when there is no
\* usable entry; for every date string _parse_date returns a timestamp.
C29_FallbackNotError ==
    /\ (fnArgs.fn = "_extract_authors" /\ fnRet.done) =>
          LET usable == SelectSeq(fnArgs.creators, C29_Usable)
          IN  /\ fnRet.out # <<>>
              /\ usable = <<>> => fnRet.out = <<"Unknown Author">>
              /\ usable # <<>> =>
                    fnRet.out = [k \in 1..Len(usable) |-> C29_NameOf(usable[k])]
    /\ (fnArgs.fn = "_parse_date" /\ fnRet.done) => fnRet.out.kind \in {"date", "now"}

\* An editor and an author entry without any name: the fallback.
C29_Witness ==
    /\ fnArgs.fn = "_extract_authors" /\ fnRet.done
    /\ Len(fnArgs.creators) = 2
    /\ fnArgs.creators[1].creatorType = "editor" /\ fnArgs.creators[1].name = "N"
    /\ fnArgs.creators[2].creatorType = "author"
    /\ fnArgs.creators[2].name = Absent /\ fnArgs.creators[2].lastName = Absent
    /\ fnRet.out = <<"Unknown Author">>

\* ---------------------------------------------------------------- C30
\* Rows the killed invocation left without pdf and not processed, whose
\* titles the next invocation collects again.
C30_LeftBehind ==
    {row \in lastCall.before :
        /\ row.pdf_path = None /\ row.processed = 0
        /\ \E i \in DOMAIN lastCall.papers : lastCall.papers[i].title = row.title}

\* store_papers of the invocation that follows a killed one, on the same
\* collected batch.
C30_AfterCrash == pc["r1"] = "CRASHED" /\ lastCall.same

C30_Offered(title) == \E i \in DOMAIN lastCall.ret : lastCall.ret[i].title = title

C31_Left ==
    {row \in store :
        /\ row.pdf_path = None /\ row.processed = 0
        /\ \A r \in Runs : \A i \in DOMAIN stored[r] : stored[r][i].id # row.id}

C31_NoForce == \A r \in Runs : ~force[r]

\* store_papers without force-update passes no record on whose title the
\* table holds without pdf, and leaves that row as it is.
C31_Dropped ==
    (lastCall.n > 0 /\ ~lastCall.force) =>
        \A row \in lastCall.before :
            (row.pdf_path = None /\ row.processed = 0) =>
                /\ \A i \in DOMAIN lastCall.ret : lastCall.ret[i].title # row.title
                /\ row \in lastCall.after

C33_Count(q, title) == Cardinality({i \in DOMAIN q : q[i] = title})

\* Titles of the batch that the snapshot holds without pdf.
C33_Replaced ==
    {row.title : row \in {row \in fnArgs.snapshot : row.pdf_path = None}}
      \cap {fnArgs.papers[i].title : i \in DOMAIN fnArgs.papers}

\* C33: in one call of store_papers, whatever the batch, the snapshot and
\* force-update, no title is inserted more than once and none is deleted
\* more than once; a delete runs only for a replacement under force-update,
\* which is one delete and one insert of its title.
C33_InsertedOnce ==
    (fnArgs.fn = "store_papers on snapshot" /\ fnRet.done) =>
        \A title \in CaseTitles :
            /\ C33_Count(fnRet.inserted, title) <= 1
            /\ C33_Count(fnRet.deleted, title) <= 1
            /\ C33_Count(fnRet.deleted, title) = 1 => (fnArgs.force /\ title \in C33_Replaced)
            /\ (fnArgs.force /\ title \in C33_Replaced) =>
                  /\ C33_Count(fnRet.deleted, title) = 1
                  /\ C33_Count(fnRet.inserted, title) = 1

\* A batch that repeats a title the snapshot holds without pdf, under
\* force-update: one delete, one insert.
C33_Witness ==
    /\ fnArgs.fn = "store_papers on snapshot" /\ fnRet.done
    /\ fnArgs.force
    /\ Len(fnArgs.papers) = 2
    /\ fnArgs.papers[1].title = "Y" /\ fnArgs.papers[2].title = "Y"
    /\ "Y" \in C33_Replaced
    /\ fnRet.deleted = <<"Y">> /\ fnRet.inserted = <<"Y">>

\* ---------------------------------------------------------------- C34
\* Outcomes download_and_update gives back to gather.
C34_Outcomes == {"True", "False", None}

\* Every slot of the semaphore is either free or held by a task inside
\* "async with self.semaphore", and a task queues only while none is free.
C34_SlotsAccounted ==
    /\ semaphore["r1"] + Cardinality(Holding("r1")) = SemaphoreWidth
    /\ semaphore["r1"] >= 0
    /\ \A i \in DOMAIN task["r1"] :
          task["r1"][i] \in {"reconcile", "done"} => i \notin Holding("r1")

\* When gather has returned: one outcome per submitted record, at the
\* record's position, no task is queued and all slots are free.
C34_AtEnd ==
    pc["r1"] = "DONE" =>
        /\ DOMAIN result["r1"] = DOMAIN lastCall.ret
        /\ \A i \in DOMAIN result["r1"] :
              /\ result["r1"][i] \in C34_Outcomes
              /\ stored["r1"][i].id = lastCall.ret[i].id
              /\ result["r1"][i] = "True" => response["r1"][i] = "200"
              /\ task["r1"][i] = "done"
              /\ requests["r1"][i] = 1
        /\ waiters["r1"] = <<>>
        /\ semaphore["r1"] = SemaphoreWidth

\* C34: every download gives its slot back however it ends (status 200,
\* another status, transport error, failed database update); when every
\* request completes, the stage ends; at its end every record was admitted
\* and sent its request, there is one outcome per record in the order of
\* submission, and all slots are free.
C34_GateReleaseAndTermination ==
    /\ [] C34_SlotsAccounted
    /\ [] C34_AtEnd
    /\ <>(pc["r1"] = "DONE")

\* The stage has ended after a record queued for a slot, one request failed,
\* one database update of download_pdf failed and one download went through.
C34_Witness ==
    /\ pc["r1"] = "DONE"
    /\ Len(result["r1"]) > SemaphoreWidth
    /\ semaphore["r1"] = SemaphoreWidth
    /\ \E i \in DOMAIN result["r1"] : response["r1"][i] = "error"
    /\ \E i \in DOMAIN result["r1"] : response["r1"][i] = "200" /\ result["r1"][i] = "False"
    /\ \E i \in DOMAIN result["r1"] : result["r1"][i] = "True"
    /\ \E i \in DOMAIN result["r1"] : result["r1"][i] = "False" /\ response["r1"][i] = "error"

\* ---------------------------------------------------------------- C35
C35_StoredTitles(run) == {row.title : row \in run.db}
C35_ReturnedTitles(run) == {run.ret[i].title : i \in DOMAIN run.ret}

\* Within one run no title is handed to the write sink twice.
C35_OncePerTitle ==
    (fnArgs.fn = "collect_all twice" /\ fnRet.done) =>
        /\ Injective(fnRet.first.published)
        /\ Injective(fnRet.second.published)

\* C35: in an arXiv run a title is published at most once, and on a rerun a
\* title that is already in the table, and that store_papers therefore
\* drops, is not published again.
C35_PublishOnlyNew ==
    (fnArgs.fn = "collect_all twice" /\ fnRet.done) =>
        /\ Injective(fnRet.first.published)
        /\ Injective(fnRet.second.published)
        /\ \A k \in DOMAIN fnRet.second.published :
              LET title == fnRet.second.published[k].title
              IN  (title \in C35_StoredTitles(fnRet.first)
                     /\ title \notin C35_ReturnedTitles(fnRet.second))
                  => FALSE

\* ---------------------------------------------------------------- C36
\* Titles both invocations collected.
C36_Common ==
    {fnArgs.first[i].title : i \in DOMAIN fnArgs.first}
      \cap {fnArgs.second[i].title : i \in DOMAIN fnArgs.second}

\* The table never holds two rows of one title.
C36_OneRowPerTitle ==
    (fnArgs.fn = "collect_all overlapping" /\ fnRet.done) =>
        \A a, b \in fnRet.db : a.title = b.title => a = b

\* C36: when two invocations took their snapshot before either stored and
\* both collected the same new title, the table never holds the title twice;
\* the second store_papers hits the unique-title conflict, rolls back and
\* returns the empty list, and no record it returned goes to the download
\* stage without being a row of the table.
C36_InterleavedRuns ==
    (fnArgs.fn = "collect_all overlapping" /\ fnRet.done /\ C36_Common # {}) =>
        /\ \A a, b \in fnRet.db : a.title = b.title => a = b
        /\ fnRet.errors > 0
        /\ fnRet.ret = <<>>
        /\ \A k \in DOMAIN fnRet.fetched : fnRet.fetched[k] \in fnRet.db

\* ---------------------------------------------------------------- C37
\* What sync_db is to make of a row, given the files there are.
C37_Synced(old, fs) ==
    IF old.processed = 1 /\ ~Exists(fs, old.pdf_path)
    THEN [old EXCEPT !.processed = 0, !.pdf_path = None]
    ELSE old

C37_Restored(op) ==
    /\ \A row \in op.after : row.processed = 1 => Exists(op.filesAfter, row.pdf_path)
    /\ op.after = {C37_Synced(old, op.filesBefore) : old \in op.before}
    /\ op.filesAfter = op.filesBefore

\* C37: after sync_db every row with processed = 1 has a pdf_path whose file
\* exists; a row that was processed with a missing file has processed = 0
\* and pdf_path = None; every other row is as it was.
C37_SyncRestores == lastOp.op = "sync" => C37_Restored(lastOp)

\* C37 as it holds: the above when sync_db raised nothing; when an update or
\* the commit raised, the table is as it was before the call.
C37_SyncRestoresUnlessError ==
    lastOp.op = "sync" =>
        /\ ~lastOp.error => C37_Restored(lastOp)
        /\ lastOp.error => lastOp.after = lastOp.before

\* A sync_db that raised nothing reset one row whose file is missing and left
\* a processed row whose file exists and an unprocessed row as they were.
C37_Witness ==
    /\ lastOp.op = "sync"
    /\ ~lastOp.error
    /\ \E old \in lastOp.before :
          /\ old.processed = 1
          /\ ~Exists(lastOp.filesBefore, old.pdf_path)
          /\ old \notin lastOp.after
    /\ \E old \in lastOp.before :
          /\ old.processed = 1
          /\ Exists(lastOp.filesBefore, old.pdf_path)
          /\ old \in lastOp.after

\* ---------------------------------------------------------------- C38
\* C38: in every table state, after pipeline runs and --flush, --sync and
\* organize commands in any order, a row with organized = 1 has processed = 1.
C38_OrganizedIsProcessed ==
    \A row \in store : row.organized = 1 => row.processed = 1

\* No row ever has organized = 1: the only assignment of the field is under
\* a condition that is never met (MarksOrganized, C25).
C38_NeverOrganized == \A row \in store : row.organized = 0

\* ---------------------------------------------------------------- C39
\* Task i of invocation r takes the step in which download_pdf or
\* download_and_update marks its record.
C39_Marks(r, i) ==
    /\ pc[r] = "FETCH_ARTIFACTS"
    /\ task[r][i] \in {"inflight", "reconcile"}
    /\ task'[r][i] # task[r][i]

\* The table after the step is the table before it, or differs from it in
\* pdf_path and processed of the row of the record, and in nothing else.
C39_OnlyMarked(paper) ==
    \/ store' = store
    \/ \E row \in store : \E pp \in {PdfPath(paper.id), "True"} :
          /\ row.id = paper.id
          /\ row.title = paper.title
          /\ store' = (store \ {row}) \cup {[row EXCEPT !.pdf_path = pp, !.processed = 1]}

\* A row that is kept keeps its source: a row of the table after the step
\* that has the id of a row before it has that row's source, unless
\* store_papers deleted the old row and inserted this one in the step.
C39_SourceKept ==
    \A old \in store : \A row \in store' :
        row.id = old.id =>
            \/ row.source = old.source
            \/ /\ lastCall'.n = lastCall.n + 1
               /\ \E k \in DOMAIN lastCall'.ret : lastCall'.ret[k] = row

\* C39: marking a record changes pdf_path and processed of its row and
\* nothing else in the table, and no operation changes the source of a row.
C39_MarkingFrame ==
    [][ /\ \A r \in Runs : \A i \in DOMAIN task[r] :
              C39_Marks(r, i) => C39_OnlyMarked(stored[r][i])
        /\ C39_SourceKept ]_vars

====
